---- MODULE Spec2Model ----
(***************************************************************************)
(* Gaze tracker: blink detection, timed calibration, live correction and   *)
(* cursor smoothing of src/App.tsx, the averaging / linear-normalization   *)
(* calibration of src/unnamed/part_000 and the timed calibration of the    *)
(* first program of src/unnamed/part_001.                                  *)
(*                                                                         *)
(* Numbers.  Normalized coordinates (eye space, screen space) and the EAR  *)
(* are held in hundredths: 0.1 is 10, 0.25 is 25.  Pixel positions are     *)
(* held in units of 1/SubPx pixel, where SubPx = 20^MaxSmoothSteps, so     *)
(* that MaxSmoothSteps steps of the 0.15 = 3/20 interpolation are exact.   *)
(*                                                                         *)
(* React.  A handler or timer callback commits its state updates; the      *)
(* effects whose dependencies changed then run as the next step, before    *)
(* any other callback (effectsPending guards every other action).          *)
(***************************************************************************)
EXTENDS Integers, Sequences, FiniteSets, TLC

(* ------------------------------ bounds -------------------------------- *)
MaxRun == 16
MaxClickTimers == 2
MaxCorrections == 1
MaxSmoothSteps == 2
MaxAutoStarts == 1
MaxFeedbackTimers == 1
MaxTicks == 2
MaxRecalibrations == 1
MaxSamples == 4

(* ------------------------ constants of src/App.tsx --------------------- *)
CALIBRATION_POINTS ==
    << [x |-> 10, y |-> 10], [x |-> 50, y |-> 10], [x |-> 90, y |-> 10],
       [x |-> 10, y |-> 50], [x |-> 50, y |-> 50], [x |-> 90, y |-> 50],
       [x |-> 10, y |-> 90], [x |-> 50, y |-> 90], [x |-> 90, y |-> 90] >>
TOTAL_CALIBRATION_POINTS == Len(CALIBRATION_POINTS)
EAR_THRESHOLD == 25
BLINK_CLOSING_FRAMES == 1
BLINK_CLOSED_FRAMES == 2
K_NEAREST_NEIGHBORS == 4
CORRECTION_SNAP_THRESHOLD == 10

(* -------------------------- the environment ---------------------------- *)
\* The browser window, in pixels (fixed during a run).
Window == [innerWidth |-> 200, innerHeight |-> 100]
\* Eye positions the perception step can report.
EyeSet == { [x |-> 40, y |-> 40], [x |-> 60, y |-> 60] }
\* The eye position of a user who keeps looking at one place.
SteadyEye == [x |-> 40, y |-> 40]
\* EAR values the perception step can report: below, at and above threshold.
EarSet == { 10, 25, 40 }
\* An open eye, reported while the detectors are not under study.
EarOpen == EAR_THRESHOLD + 15
\* Pointer positions of a mouse-down, in pixels.
ClickSet == { [clientX |-> 50, clientY |-> 20], [clientX |-> 200, clientY |-> 100] }
NoDetection == [detected |-> FALSE]
Detection(eye, lear, rear) ==
    [detected |-> TRUE, eye |-> eye, leftEAR |-> lear, rightEAR |-> rear]
None == "none"
\* The latest callback was no mouse-down.
Other == [op |-> "other"]

RECURSIVE Pow(_, _)
Pow(b, n) == IF n = 0 THEN 1 ELSE b * Pow(b, n - 1)
SubPx == Pow(20, MaxSmoothSteps)
RECURSIVE Gcd(_, _)
Gcd(a, b) == IF b = 0 THEN a ELSE Gcd(b, a % b)
RECURSIVE SeqGcd(_)
SeqGcd(s) == IF s = <<>> THEN 0 ELSE Gcd(Head(s), SeqGcd(Tail(s)))
RECURSIVE SeqSum(_)
SeqSum(s) == IF s = <<>> THEN 0 ELSE Head(s) + SeqSum(Tail(s))
RECURSIVE SeqProd(_)
SeqProd(s) == IF s = <<>> THEN 1 ELSE Head(s) * SeqProd(Tail(s))
Min2(a, b) == IF a < b THEN a ELSE b
Max2(a, b) == IF a > b THEN a ELSE b
\* A pixel count as a stored position.
Px(p) == p * SubPx
ScreenCentre == [x |-> Px(Window.innerWidth) \div 2, y |-> Px(Window.innerHeight) \div 2]

VARIABLES
    \* ---- src/App.tsx ----
    leftEyeState, rightEyeState,   \* leftEyeStateRef, rightEyeStateRef
    clickState, clickTimers,       \* clickState and its pending 200 ms resets
    eyePosition,                   \* eyePositionRef
    targetPosition,                \* targetPositionRef
    smoothedCursorPos,             \* smoothedCursorPosRef
    cursorPosition,                \* published cursor
    calibrationState, calibrationPointIndex, calibrationData,
    calibrationStateRef, calibrationDataRef,
    captureTimer,                  \* pending 2500 ms capture timers: their target indices
    autoStartTimers,               \* pending 1000 ms auto-start timers
    cursorLoop,                    \* the smoothing loop is registered
    isCorrectionMode, correctionFeedback, feedbackTimers,
    effectsPending,                \* a commit whose effects have not run yet
    \* ---- observers of src/App.tsx ----
    fired,                         \* the clicks the latest frame fired
    run,                           \* per eye: consecutive below-threshold frames so far
    closedFor,                     \* per eye: length of the closure the latest frame ended
    lastOp,                        \* the latest callback, if a mouse-down: its event and outcome
    smoothSteps,                   \* smoothing steps taken so far
    \* ---- which program runs; variables of the same name are shared ----
    variant,
    \* ---- src/unnamed/part_000 ----
    isWebcamEnabled, classifiersLoaded,
    currentPointIndex,
    calibrationMap,                \* calibrationMap ref (calibrationMapRef of part_001): a map or None
    mode,
    chains,                        \* the pending timers of processPoint, one record per call
    calDeps,                       \* the dependencies the calibration effect last ran with
    leftEyeOpen, rightEyeOpen, leftEyeBlinked, rightEyeBlinked,
    blinkTimeout,                  \* the 150 ms reset of clickState is pending
    recalibrations,                \* observer: handleRecalibrate calls so far
    oldRunSamples,                 \* observer: samples in calibrationData pushed by timers
                                   \* that were armed before the latest handleRecalibrate
    \* ---- src/unnamed/part_001 ----
    modeRef,
    canPlays,                      \* observer: canplay events so far
    \* ---- the mappers, applied as functions ----
    argPoints,                     \* the calibration set handed to mapEyeToScreen
    argEye,                        \* the eye position handed to it
    mapped,                        \* what each mapEyeToScreen returned for them
    \* ---- the cursor loop of part_001 / part_005 ----
    filters,                       \* filterXRef / filterYRef: firstTime and x_prev of each
    \* ---- src/unnamed/part_005, second program ----
    leftBlinkDetector, rightBlinkDetector,
    eyeBlinkState,
    blinkResets,                   \* pending 250 ms resets of eyeBlinkState: their closures
    detectionStatus,
    stretchClicks,                 \* observer, per eye: clicks fired since it was last detected
    correctionData, isCalibrated,
    storage,                       \* localStorage under CALIBRATION_STORAGE_KEY
    \* ---- src/components/CalibrationScreen.tsx ----
    collectedData, showFeedback,
    advanceTimers,                 \* pending 300 ms timers of handleTargetClick: their closures
    completions,                   \* observer: the arguments of the onCalibrationComplete calls
    \* ---- OneEuroFilter of part_001, applied as a function ----
    euro                           \* an instance, the clock and what filter last returned

blinkVars == << leftEyeState, rightEyeState, clickState, clickTimers >>
calVars == << calibrationState, calibrationPointIndex, calibrationData,
              calibrationStateRef, calibrationDataRef, captureTimer,
              autoStartTimers, cursorLoop, effectsPending >>
cursorVars == << eyePosition, targetPosition, smoothedCursorPos, cursorPosition >>
corrVars == << isCorrectionMode, correctionFeedback, feedbackTimers >>
obsVars == << fired, run, closedFor, lastOp, smoothSteps >>
appVars == << blinkVars, calVars, cursorVars, corrVars, obsVars >>
p0Vars == << isWebcamEnabled, classifiersLoaded, currentPointIndex, calibrationMap, mode,
             chains, calDeps, leftEyeOpen, rightEyeOpen, leftEyeBlinked, rightEyeBlinked,
             blinkTimeout, recalibrations, oldRunSamples >>
\* The same without the map.
p0Rest == << isWebcamEnabled, classifiersLoaded, currentPointIndex, mode, chains, calDeps,
            leftEyeOpen, rightEyeOpen, leftEyeBlinked, rightEyeBlinked, blinkTimeout,
            recalibrations, oldRunSamples >>
\* What the actions of src/App.tsx never touch.
detVars == << leftBlinkDetector, rightBlinkDetector, eyeBlinkState, blinkResets,
              detectionStatus, stretchClicks >>
storeVars == << correctionData, isCalibrated, storage >>
screenVars == << collectedData, showFeedback, advanceTimers, completions >>
p5bVars == << detVars, storeVars, screenVars >>
fnVars == << argPoints, argEye, mapped, p5bVars, euro >>
extVars == << variant, p0Vars, modeRef, canPlays, fnVars, filters >>

(* ------------------------- src/App.tsx: mapper ------------------------- *)
\* Squared eye-space distance (in 1e-4): Math.sqrt(dx^2 + dy^2) compared through its square.
Dist2(p, q) == (p.x - q.x) * (p.x - q.x) + (p.y - q.y) * (p.y - q.y)
ScaleToWindow(s) ==
    [x |-> (s.x * Px(Window.innerWidth)) \div 100, y |-> (s.y * Px(Window.innerHeight)) \div 100]
\* The first sample, in insertion order, closer than the snap threshold (0 if none).
SnapIndex(eye, pts) ==
    LET close == { i \in 1..Len(pts) :
                     Dist2(pts[i].eye, eye) < CORRECTION_SNAP_THRESHOLD * CORRECTION_SNAP_THRESHOLD }
    IN IF close = {} THEN 0 ELSE CHOOSE i \in close : \A j \in close : i <= j
\* distances.sort (stable) then slice(0, K): the indices of the K nearest samples, d
\* holding each sample's distance.
Rank(d, i) == Cardinality({ j \in DOMAIN d : d[j] < d[i] \/ (d[j] = d[i] /\ j < i) })
NearestOf(d) == [r \in 1..K_NEAREST_NEIGHBORS |-> CHOOSE i \in DOMAIN d : Rank(d, i) = r - 1]
NearestNeighbors(eye, pts) == NearestOf([i \in 1..Len(pts) |-> Dist2(pts[i].eye, eye)])
\* (num / den) in hundredths scaled to the pixels of a window extent:
\* floor(num * (Px(extent) / 100) / den) for num >= 0, the quotient and the remainder of
\* num / den scaled apart (which keeps the products small).
ScaleRatio(num, den, extent) ==
    (num \div den) * (Px(extent) \div 100) + ((num % den) * (Px(extent) \div 100)) \div den
\* The weights 1 / (dist^power + 1e-9) of the nearest neighbours, cleared of
\* denominators and common factors; dp holds dist^power.  A zero distance weighs 1e9,
\* which outweighs any other neighbour beyond the model's resolution: such neighbours
\* share all the weight.
ClearDenominators(dp, g) ==
    [r \in DOMAIN dp |-> SeqProd([q \in DOMAIN dp |-> IF q = r THEN 1 ELSE dp[q] \div g])]
DivideAll(w, g) == [r \in DOMAIN w |-> w[r] \div g]
Normalise(w) == DivideAll(w, SeqGcd(w))
IdwWeights(dp) ==
    IF \E r \in DOMAIN dp : dp[r] = 0
    THEN [r \in DOMAIN dp |-> IF dp[r] = 0 THEN 1 ELSE 0]
    ELSE Normalise(ClearDenominators(dp, SeqGcd(dp)))
\* weightedScreen / totalWeight for the screen components v and the weights w, in
\* window pixels.
WeightedMean(v, w, extent) ==
    ScaleRatio(SeqSum([r \in DOMAIN w |-> v[r] * w[r]]), SeqSum(w), extent)
\* The same with Math.max(0, Math.min(1, ...)) applied before the scaling.
ClampRatio(num, den, extent) == ScaleRatio(Max2(0, Min2(100 * den, num)), den, extent)
ClampedMean(v, w, extent) ==
    ClampRatio(SeqSum([r \in DOMAIN w |-> v[r] * w[r]]), SeqSum(w), extent)
\* The inverse-distance weighted average of one axis, clamped to [0,1] and scaled to
\* window pixels, with weight = 1 / (dist^2 + 1e-9).
WeightedAxis(eye, pts, nn, axis, extent) ==
    ClampedMean([r \in 1..K_NEAREST_NEIGHBORS |-> pts[nn[r]].screen[axis]],
                IdwWeights([r \in 1..K_NEAREST_NEIGHBORS |-> Dist2(pts[nn[r]].eye, eye)]),
                extent)
mapEyeToScreen_EmptyOnlyFallback(currentEyePos, calibrationPoints) ==
    IF Len(calibrationPoints) = 0 THEN ScreenCentre
    ELSE IF Len(calibrationPoints) < K_NEAREST_NEIGHBORS
    THEN ScaleToWindow(calibrationPoints[Len(calibrationPoints)].screen)
    ELSE LET s == SnapIndex(currentEyePos, calibrationPoints)
             nn == NearestNeighbors(currentEyePos, calibrationPoints)
         IN IF s # 0 THEN ScaleToWindow(calibrationPoints[s].screen)
            ELSE [x |-> WeightedAxis(currentEyePos, calibrationPoints, nn, "x", Window.innerWidth),
                  y |-> WeightedAxis(currentEyePos, calibrationPoints, nn, "y", Window.innerHeight)]
mapEyeToScreen(currentEyePos, calibrationPoints) ==
    IF Len(calibrationPoints) < K_NEAREST_NEIGHBORS THEN ScreenCentre
    ELSE LET s == SnapIndex(currentEyePos, calibrationPoints)
             nn == NearestNeighbors(currentEyePos, calibrationPoints)
         IN IF s # 0 THEN ScaleToWindow(calibrationPoints[s].screen)
            ELSE [x |-> WeightedAxis(currentEyePos, calibrationPoints, nn, "x", Window.innerWidth),
                  y |-> WeightedAxis(currentEyePos, calibrationPoints, nn, "y", Window.innerHeight)]

(* ------------------- src/unnamed/part_002: the mappers ----------------- *)
\* Both programs of part_002 have the K_NEAREST_NEIGHBORS of src/App.tsx, the first
\* also its CORRECTION_SNAP_THRESHOLD.
P2_INVERSE_DISTANCE_POWER == 4
\* "Fallback to the last available point": its screen point moved by the eye offset,
\* times the sensitivity (in halves), scaled to the window; not clamped.
OffsetFromLast(eye, pts, halves) ==
    LET lastPoint == pts[Len(pts)]
    IN [x |-> ((2 * lastPoint.screen.x + halves * (eye.x - lastPoint.eye.x)) * Px(Window.innerWidth))
                 \div 200,
        y |-> ((2 * lastPoint.screen.y + halves * (eye.y - lastPoint.eye.y)) * Px(Window.innerHeight))
                 \div 200]
\* First program: weights 1 / dist^4, clamped.
P2_WeightedAxis(eye, pts, nn, axis, extent) ==
    ClampedMean([r \in 1..K_NEAREST_NEIGHBORS |-> pts[nn[r]].screen[axis]],
                IdwWeights([r \in 1..K_NEAREST_NEIGHBORS |->
                               Pow(Dist2(pts[nn[r]].eye, eye), P2_INVERSE_DISTANCE_POWER \div 2)]),
                extent)
P2_mapEyeToScreen(currentEyePos, correctionPoints) ==
    IF Len(correctionPoints) < K_NEAREST_NEIGHBORS
    THEN IF Len(correctionPoints) > 0
         THEN OffsetFromLast(currentEyePos, correctionPoints, 2)
         ELSE ScreenCentre
    ELSE LET s == SnapIndex(currentEyePos, correctionPoints)
             nn == NearestNeighbors(currentEyePos, correctionPoints)
         IN IF s # 0 THEN ScaleToWindow(correctionPoints[s].screen)
            ELSE [x |-> P2_WeightedAxis(currentEyePos, correctionPoints, nn, "x", Window.innerWidth),
                  y |-> P2_WeightedAxis(currentEyePos, correctionPoints, nn, "y", Window.innerHeight)]
\* Second program: no snap, sensitivity 2.5 in the fallback, weights 1 / dist^2, no clamp.
P2b_WeightedAxis(eye, pts, nn, axis, extent) ==
    WeightedMean([r \in 1..K_NEAREST_NEIGHBORS |-> pts[nn[r]].screen[axis]],
                 IdwWeights([r \in 1..K_NEAREST_NEIGHBORS |-> Dist2(pts[nn[r]].eye, eye)]),
                 extent)
P2b_mapEyeToScreen(currentEyePos, correctionPoints) ==
    IF Len(correctionPoints) = 0 THEN ScreenCentre
    ELSE IF Len(correctionPoints) < K_NEAREST_NEIGHBORS
    THEN OffsetFromLast(currentEyePos, correctionPoints, 5)
    ELSE LET nn == NearestNeighbors(currentEyePos, correctionPoints)
         IN [x |-> P2b_WeightedAxis(currentEyePos, correctionPoints, nn, "x", Window.innerWidth),
             y |-> P2b_WeightedAxis(currentEyePos, correctionPoints, nn, "y", Window.innerHeight)]

(* --------------------- src/App.tsx: blink detector --------------------- *)
Idle == [state |-> "idle", frames |-> 0]
\* One update of a detector: its next state and whether triggerClick is called.
\* closing: the frames in closing before closed; window: the largest closed-frame
\* count that still clicks on reopening; timeout: the squint timeout.
BlinkTransition(eyeState, ear, closing, window, timeout) ==
    IF eyeState.state = "idle" /\ ear < EAR_THRESHOLD
    THEN [next |-> [state |-> "closing", frames |-> 1], click |-> FALSE]
    ELSE IF eyeState.state = "closing"
    THEN IF ear < EAR_THRESHOLD
         THEN IF eyeState.frames >= closing
              THEN [next |-> [state |-> "closed", frames |-> 1], click |-> FALSE]
              ELSE [next |-> [eyeState EXCEPT !.frames = @ + 1], click |-> FALSE]
         ELSE [next |-> Idle, click |-> FALSE]
    ELSE IF eyeState.state = "closed"
    THEN IF ear >= EAR_THRESHOLD
         THEN [next |-> Idle, click |-> eyeState.frames > 0 /\ eyeState.frames <= window]
         ELSE IF eyeState.frames > timeout
         THEN [next |-> Idle, click |-> FALSE]
         ELSE [next |-> [eyeState EXCEPT !.frames = @ + 1], click |-> FALSE]
    ELSE [next |-> eyeState, click |-> FALSE]
\* A detector that needs one more frame in closing.
updateBlinkState_LateClosed(eyeState, ear) ==
    BlinkTransition(eyeState, ear, BLINK_CLOSING_FRAMES + 1,
                    BLINK_CLOSED_FRAMES + 3, BLINK_CLOSED_FRAMES * 5)
\* A detector whose click window is one frame shorter.
updateBlinkState_ShortWindow(eyeState, ear) ==
    BlinkTransition(eyeState, ear, BLINK_CLOSING_FRAMES,
                    BLINK_CLOSED_FRAMES + 2, BLINK_CLOSED_FRAMES * 5)
\* A detector whose squint timeout comes one frame later.
updateBlinkState_LateTimeout(eyeState, ear) ==
    BlinkTransition(eyeState, ear, BLINK_CLOSING_FRAMES,
                    BLINK_CLOSED_FRAMES + 3, BLINK_CLOSED_FRAMES * 5 + 1)
updateBlinkState(eyeState, ear) ==
    BlinkTransition(eyeState, ear, BLINK_CLOSING_FRAMES,
                    BLINK_CLOSED_FRAMES + 3, BLINK_CLOSED_FRAMES * 5)

\* triggerClick for the clicks of one frame, left first: the last one stays published,
\* and each call arms its own 200 ms reset.
ClickCount(l, r) == (IF l THEN 1 ELSE 0) + (IF r THEN 1 ELSE 0)
triggerClick_NoReset(l, r) ==
    /\ clickTimers + ClickCount(l, r) <= MaxClickTimers
    /\ clickState' = IF r THEN "right" ELSE IF l THEN "left" ELSE clickState
    /\ clickTimers' = clickTimers
triggerClick(l, r) ==
    /\ clickTimers + ClickCount(l, r) <= MaxClickTimers
    /\ clickState' = IF r THEN "right" ELSE IF l THEN "left" ELSE clickState
    /\ clickTimers' = clickTimers + ClickCount(l, r)

\* The reset armed by triggerClick fires.
ClickReset ==
    /\ ~effectsPending
    /\ clickTimers > 0
    /\ clickTimers' = clickTimers - 1
    /\ clickState' = None
    /\ lastOp' = Other
    /\ UNCHANGED << leftEyeState, rightEyeState, calVars, cursorVars, corrVars,
                    fired, run, closedFor, smoothSteps >>
    /\ UNCHANGED extVars

\* Observer: the run of below-threshold frames of one eye.
NextRun(r, ear) == IF ear < EAR_THRESHOLD THEN r + 1 ELSE 0
NextClosedFor(r, ear) == IF ear < EAR_THRESHOLD THEN 0 ELSE r

\* A perception step that writes the two coordinates of the target in different frames.
processVideo_TornWrite(obs) ==
    /\ ~effectsPending
    /\ lastOp' = IF obs.detected
                 THEN [op |-> "frame", leftEAR |-> obs.leftEAR, rightEAR |-> obs.rightEAR]
                 ELSE [op |-> "noDetection"]
    /\ IF obs.detected
       THEN LET l == updateBlinkState(leftEyeState, obs.leftEAR)
                r == updateBlinkState(rightEyeState, obs.rightEAR)
            IN /\ run.left + 1 <= MaxRun \/ obs.leftEAR >= EAR_THRESHOLD
               /\ run.right + 1 <= MaxRun \/ obs.rightEAR >= EAR_THRESHOLD
               /\ eyePosition' = obs.eye
               /\ targetPosition' =
                     IF calibrationStateRef = "finished"
                     THEN [targetPosition EXCEPT
                              !.x = mapEyeToScreen(obs.eye, calibrationDataRef).x]
                     ELSE targetPosition
               /\ leftEyeState' = l.next
               /\ rightEyeState' = r.next
               /\ triggerClick(l.click, r.click)
               /\ fired' = [left |-> l.click, right |-> r.click]
               /\ run' = [left |-> NextRun(run.left, obs.leftEAR),
                          right |-> NextRun(run.right, obs.rightEAR)]
               /\ closedFor' = [left |-> NextClosedFor(run.left, obs.leftEAR),
                                right |-> NextClosedFor(run.right, obs.rightEAR)]
       ELSE /\ fired' = [left |-> FALSE, right |-> FALSE]
            /\ closedFor' = [left |-> 0, right |-> 0]
            /\ UNCHANGED << eyePosition, targetPosition, blinkVars, run >>
    /\ UNCHANGED << smoothedCursorPos, cursorPosition, calVars, corrVars, smoothSteps >>
    /\ UNCHANGED extVars
\* One frame of the processing loop.
processVideo_ResetsOnLoss(obs) ==
    /\ ~effectsPending
    /\ lastOp' = IF obs.detected
                 THEN [op |-> "frame", leftEAR |-> obs.leftEAR, rightEAR |-> obs.rightEAR]
                 ELSE [op |-> "noDetection"]
    /\ IF obs.detected
       THEN LET l == updateBlinkState(leftEyeState, obs.leftEAR)
                r == updateBlinkState(rightEyeState, obs.rightEAR)
            IN /\ run.left + 1 <= MaxRun \/ obs.leftEAR >= EAR_THRESHOLD
               /\ run.right + 1 <= MaxRun \/ obs.rightEAR >= EAR_THRESHOLD
               /\ eyePosition' = obs.eye
               /\ targetPosition' = IF calibrationStateRef = "finished"
                                    THEN mapEyeToScreen(obs.eye, calibrationDataRef)
                                    ELSE targetPosition
               /\ leftEyeState' = l.next
               /\ rightEyeState' = r.next
               /\ triggerClick(l.click, r.click)
               /\ fired' = [left |-> l.click, right |-> r.click]
               /\ run' = [left |-> NextRun(run.left, obs.leftEAR),
                          right |-> NextRun(run.right, obs.rightEAR)]
               /\ closedFor' = [left |-> NextClosedFor(run.left, obs.leftEAR),
                                right |-> NextClosedFor(run.right, obs.rightEAR)]
       ELSE /\ fired' = [left |-> FALSE, right |-> FALSE]
            /\ closedFor' = [left |-> 0, right |-> 0]
            /\ leftEyeState' = Idle
            /\ rightEyeState' = Idle
            /\ UNCHANGED << eyePosition, targetPosition, clickState, clickTimers, run >>
    /\ UNCHANGED << smoothedCursorPos, cursorPosition, calVars, corrVars, smoothSteps >>
    /\ UNCHANGED extVars
processVideo_SharedDetector(obs) ==
    /\ ~effectsPending
    /\ lastOp' = IF obs.detected
                 THEN [op |-> "frame", leftEAR |-> obs.leftEAR, rightEAR |-> obs.rightEAR]
                 ELSE [op |-> "noDetection"]
    /\ IF obs.detected
       THEN LET l == updateBlinkState(leftEyeState, obs.leftEAR)
                r == updateBlinkState(leftEyeState, obs.rightEAR)
            IN /\ run.left + 1 <= MaxRun \/ obs.leftEAR >= EAR_THRESHOLD
               /\ run.right + 1 <= MaxRun \/ obs.rightEAR >= EAR_THRESHOLD
               /\ eyePosition' = obs.eye
               /\ targetPosition' = IF calibrationStateRef = "finished"
                                    THEN mapEyeToScreen(obs.eye, calibrationDataRef)
                                    ELSE targetPosition
               /\ leftEyeState' = l.next
               /\ rightEyeState' = r.next
               /\ triggerClick(l.click, r.click)
               /\ fired' = [left |-> l.click, right |-> r.click]
               /\ run' = [left |-> NextRun(run.left, obs.leftEAR),
                          right |-> NextRun(run.right, obs.rightEAR)]
               /\ closedFor' = [left |-> NextClosedFor(run.left, obs.leftEAR),
                                right |-> NextClosedFor(run.right, obs.rightEAR)]
       ELSE /\ fired' = [left |-> FALSE, right |-> FALSE]
            /\ closedFor' = [left |-> 0, right |-> 0]
            /\ UNCHANGED << eyePosition, targetPosition, blinkVars, run >>
    /\ UNCHANGED << smoothedCursorPos, cursorPosition, calVars, corrVars, smoothSteps >>
    /\ UNCHANGED extVars
processVideo(obs) ==
    /\ ~effectsPending
    /\ lastOp' = IF obs.detected
                 THEN [op |-> "frame", leftEAR |-> obs.leftEAR, rightEAR |-> obs.rightEAR]
                 ELSE [op |-> "noDetection"]
    /\ IF obs.detected
       THEN LET l == updateBlinkState(leftEyeState, obs.leftEAR)
                r == updateBlinkState(rightEyeState, obs.rightEAR)
            IN /\ run.left + 1 <= MaxRun \/ obs.leftEAR >= EAR_THRESHOLD
               /\ run.right + 1 <= MaxRun \/ obs.rightEAR >= EAR_THRESHOLD
               /\ eyePosition' = obs.eye
               /\ targetPosition' = IF calibrationStateRef = "finished"
                                    THEN mapEyeToScreen(obs.eye, calibrationDataRef)
                                    ELSE targetPosition
               /\ leftEyeState' = l.next
               /\ rightEyeState' = r.next
               /\ triggerClick(l.click, r.click)
               /\ fired' = [left |-> l.click, right |-> r.click]
               /\ run' = [left |-> NextRun(run.left, obs.leftEAR),
                          right |-> NextRun(run.right, obs.rightEAR)]
               /\ closedFor' = [left |-> NextClosedFor(run.left, obs.leftEAR),
                                right |-> NextClosedFor(run.right, obs.rightEAR)]
       ELSE /\ fired' = [left |-> FALSE, right |-> FALSE]
            /\ closedFor' = [left |-> 0, right |-> 0]
            /\ UNCHANGED << eyePosition, targetPosition, blinkVars, run >>
    /\ UNCHANGED << smoothedCursorPos, cursorPosition, calVars, corrVars, smoothSteps >>
    /\ UNCHANGED extVars

(* ------------------- src/App.tsx: timed calibration -------------------- *)
\* startCalibration: the three state updates of one commit.
\* (A restart that leaves the target index where it was.)
startCalibration_KeepsIndex ==
    /\ calibrationState' = "inProgress"
    /\ calibrationPointIndex' = calibrationPointIndex
    /\ calibrationData' = <<>>
    /\ effectsPending' = TRUE
startCalibration ==
    /\ calibrationState' = "inProgress"
    /\ calibrationPointIndex' = 0
    /\ calibrationData' = <<>>
    /\ effectsPending' = TRUE

\* The Recalibrate button of StatusDisplay (onRecalibrate = startCalibration).
Recalibrate ==
    /\ ~effectsPending
    /\ startCalibration
    /\ lastOp' = Other
    /\ UNCHANGED << calibrationStateRef, calibrationDataRef, captureTimer, autoStartTimers,
                    cursorLoop, blinkVars, cursorVars, corrVars, fired, run, closedFor,
                    smoothSteps >>
    /\ UNCHANGED extVars

\* Auto-start: the video element's canplay arms a 1000 ms timer ...
CanPlay ==
    /\ ~effectsPending
    /\ canPlays < MaxAutoStarts
    /\ canPlays' = canPlays + 1
    /\ autoStartTimers' = autoStartTimers + 1
    /\ lastOp' = Other
    /\ UNCHANGED << calibrationState, calibrationPointIndex, calibrationData,
                    calibrationStateRef, calibrationDataRef, captureTimer, cursorLoop,
                    effectsPending, blinkVars, cursorVars, corrVars, fired, run, closedFor,
                    smoothSteps >>
    /\ UNCHANGED << variant, p0Vars, modeRef, fnVars, filters >>
\* ... which calls startCalibration.
AutoStartTimer ==
    /\ ~effectsPending
    /\ autoStartTimers > 0
    /\ autoStartTimers' = autoStartTimers - 1
    /\ startCalibration
    /\ lastOp' = Other
    /\ UNCHANGED << calibrationStateRef, calibrationDataRef, captureTimer, cursorLoop,
                    blinkVars, cursorVars, corrVars, fired, run, closedFor, smoothSteps >>
    /\ UNCHANGED extVars

\* The sample the capture timer of target index i appends.
CaptureSample(i) == [screen |-> CALIBRATION_POINTS[i + 1], eye |-> eyePosition]
\* The 2500 ms capture timer of the calibration effect fires.
CaptureTimer ==
    /\ ~effectsPending
    /\ \E i \in captureTimer :
         /\ calibrationData' = Append(calibrationData, CaptureSample(i))
         /\ captureTimer' = captureTimer \ {i}
    /\ calibrationPointIndex' = calibrationPointIndex + 1
    /\ effectsPending' = TRUE
    /\ lastOp' = Other
    /\ UNCHANGED << calibrationState, calibrationStateRef, calibrationDataRef,
                    autoStartTimers, cursorLoop, blinkVars, cursorVars, corrVars,
                    fired, run, closedFor, smoothSteps >>
    /\ UNCHANGED extVars

\* The effects of one commit, in declaration order.
\* Sync state to refs.
SyncRefsEffect ==
    /\ calibrationStateRef' = calibrationState
    /\ calibrationDataRef' = calibrationData
\* Initial Calibration Logic: the cleanup clears the previous timer; a new timer is set
\* for the current target, or the run is finished.
\* The same effect without its cleanup.
CalibrationLogicEffect_NoCleanup ==
    IF calibrationState # "inProgress"
    THEN /\ effectsPending' = FALSE
         /\ UNCHANGED << captureTimer, calibrationState >>
    ELSE IF calibrationPointIndex < TOTAL_CALIBRATION_POINTS
    THEN /\ captureTimer' = captureTimer \cup {calibrationPointIndex}
         /\ effectsPending' = FALSE
         /\ UNCHANGED calibrationState
    ELSE /\ calibrationState' = "finished"
         /\ effectsPending' = TRUE
         /\ UNCHANGED captureTimer
CalibrationLogicEffect ==
    IF calibrationState # "inProgress"
    THEN /\ captureTimer' = {}
         /\ effectsPending' = FALSE
         /\ UNCHANGED calibrationState
    ELSE IF calibrationPointIndex < TOTAL_CALIBRATION_POINTS
    THEN /\ captureTimer' = {calibrationPointIndex}
         /\ effectsPending' = FALSE
         /\ UNCHANGED calibrationState
    ELSE /\ captureTimer' = {}
         /\ calibrationState' = "finished"
         /\ effectsPending' = TRUE
\* Smooth cursor movement loop: registered while the committed state is finished.
SmoothCursorEffect == cursorLoop' = (calibrationState = "finished")
RunEffects ==
    /\ effectsPending
    /\ SyncRefsEffect
    /\ CalibrationLogicEffect
    /\ SmoothCursorEffect
    /\ lastOp' = Other
    /\ UNCHANGED << calibrationPointIndex, calibrationData, autoStartTimers, blinkVars,
                    cursorVars, corrVars, fired, run, closedFor, smoothSteps >>
    /\ UNCHANGED extVars

(* -------------------- src/App.tsx: live correction --------------------- *)
\* Correction Mode: the Shift key is pressed / released.
handleKeyDown ==
    /\ ~effectsPending
    /\ isCorrectionMode' = TRUE
    /\ lastOp' = Other
    /\ UNCHANGED << correctionFeedback, feedbackTimers, blinkVars, calVars, cursorVars,
                    fired, run, closedFor, smoothSteps >>
    /\ UNCHANGED extVars
handleKeyUp ==
    /\ ~effectsPending
    /\ isCorrectionMode' = FALSE
    /\ lastOp' = Other
    /\ UNCHANGED << correctionFeedback, feedbackTimers, blinkVars, calVars, cursorVars,
                    fired, run, closedFor, smoothSteps >>
    /\ UNCHANGED extVars

\* event.clientX / window.innerWidth, event.clientY / window.innerHeight.
\* (Both coordinates divided by the window height.)
NormalizeClick_ByHeight(event) ==
    [x |-> (event.clientX * 100) \div Window.innerHeight,
     y |-> (event.clientY * 100) \div Window.innerHeight]
NormalizeClick(event) ==
    [x |-> (event.clientX * 100) \div Window.innerWidth,
     y |-> (event.clientY * 100) \div Window.innerHeight]
\* The click position as a stored pixel position.
ClickPos(event) == [x |-> Px(event.clientX), y |-> Px(event.clientY)]
\* The early return of handleCorrectionClick.
\* (A gate on the modifier alone.)
CorrectionGate_ModifierOnly == ~isCorrectionMode
CorrectionGate == ~isCorrectionMode \/ calibrationState # "finished"
\* The sample an accepted correction click appends.
\* (A sample whose screen point is left in pixels.)
CorrectionSample_RawPixels(event) ==
    [screen |-> [x |-> event.clientX, y |-> event.clientY], eye |-> eyePosition]
CorrectionSample(event) == [screen |-> NormalizeClick(event), eye |-> eyePosition]
\* A mouse-down anywhere in the application.
handleCorrectionClick(event) ==
    /\ ~effectsPending
    /\ lastOp' = [op |-> "click", event |-> event, accepted |-> ~CorrectionGate]
    /\ IF CorrectionGate
       THEN UNCHANGED << calibrationData, correctionFeedback, feedbackTimers,
                         effectsPending, smoothedCursorPos, cursorPosition >>
       ELSE /\ Len(calibrationData) < TOTAL_CALIBRATION_POINTS + MaxCorrections
            /\ feedbackTimers < MaxFeedbackTimers
            /\ calibrationData' = Append(calibrationData, CorrectionSample(event))
            /\ correctionFeedback' = TRUE
            /\ feedbackTimers' = feedbackTimers + 1
            /\ effectsPending' = TRUE
            /\ UNCHANGED << smoothedCursorPos, cursorPosition >>
    /\ UNCHANGED << calibrationState, calibrationPointIndex, calibrationStateRef,
                    calibrationDataRef, captureTimer, autoStartTimers, cursorLoop,
                    isCorrectionMode, eyePosition, targetPosition, blinkVars,
                    fired, run, closedFor, smoothSteps >>
    /\ UNCHANGED extVars
\* The 200 ms timer of the visual acknowledgment fires.
FeedbackTimer ==
    /\ ~effectsPending
    /\ feedbackTimers > 0
    /\ feedbackTimers' = feedbackTimers - 1
    /\ correctionFeedback' = FALSE
    /\ lastOp' = Other
    /\ UNCHANGED << isCorrectionMode, blinkVars, calVars, cursorVars,
                    fired, run, closedFor, smoothSteps >>
    /\ UNCHANGED extVars

(* -------------------- src/App.tsx: cursor smoothing -------------------- *)
\* smoothed += (target - smoothed) * 0.15
\* A smoothing step that takes the remaining distance for the step.
Lerp_Overshoots(smoothed, target) == smoothed + (23 * (target - smoothed)) \div 20
Lerp(smoothed, target) == smoothed + (3 * (target - smoothed)) \div 20
\* One step of the smoothing loop.
updateCursor_Unguarded ==
    /\ ~effectsPending
    /\ smoothSteps < MaxSmoothSteps
    /\ smoothSteps' = smoothSteps + 1
    /\ smoothedCursorPos' = [x |-> Lerp(smoothedCursorPos.x, targetPosition.x),
                             y |-> Lerp(smoothedCursorPos.y, targetPosition.y)]
    /\ cursorPosition' = smoothedCursorPos'
    /\ lastOp' = Other
    /\ UNCHANGED << eyePosition, targetPosition, blinkVars, calVars, corrVars,
                    fired, run, closedFor >>
    /\ UNCHANGED extVars
updateCursor ==
    /\ ~effectsPending
    /\ cursorLoop
    /\ smoothSteps < MaxSmoothSteps
    /\ smoothSteps' = smoothSteps + 1
    /\ smoothedCursorPos' = [x |-> Lerp(smoothedCursorPos.x, targetPosition.x),
                             y |-> Lerp(smoothedCursorPos.y, targetPosition.y)]
    /\ cursorPosition' = smoothedCursorPos'
    /\ lastOp' = Other
    /\ UNCHANGED << eyePosition, targetPosition, blinkVars, calVars, corrVars,
                    fired, run, closedFor >>
    /\ UNCHANGED extVars

(* ======================= src/unnamed/part_000 ========================= *)
P0_CALIBRATION_POINTS ==
    << [x |-> 10, y |-> 10], [x |-> 90, y |-> 10], [x |-> 50, y |-> 50],
       [x |-> 10, y |-> 90], [x |-> 90, y |-> 90] >>
\* What processVideo of part_000 can see in a frame: no usable video (it returns null at
\* once), no face, or a face with an eye found on its left / right half or not, and
\* the mean of the centres of the eyes found.
P0_NoVideo == [kind |-> "none"]
P0_NoFace == [kind |-> "noface"]
P0_Eyes(l, r, eye) == [kind |-> "face", left |-> l, right |-> r, eye |-> eye]
Origin == [x |-> 0, y |-> 0]
\* containerRef.current.clientWidth / 2, clientHeight / 2: the container fills the window.
P0_Centre == ScreenCentre

RECURSIVE SeqMin(_)
SeqMin(s) == IF Len(s) = 1 THEN s[1] ELSE Min2(Head(s), SeqMin(Tail(s)))
RECURSIVE SeqMax(_)
SeqMax(s) == IF Len(s) = 1 THEN s[1] ELSE Max2(Head(s), SeqMax(Tail(s)))
\* Remove the element at position i of a sequence.
RemoveAt(s, i) == [j \in 1..(Len(s) - 1) |-> IF j < i THEN s[j] ELSE s[j + 1]]

\* The CalibrationMap of processPoint: the bounding box of the eye components, widened
\* by 0.01 on every side.
P0_BuildMap(data) ==
    LET xs == [i \in 1..Len(data) |-> data[i].eye.x]
        ys == [i \in 1..Len(data) |-> data[i].eye.y]
    IN [eyeMinX |-> SeqMin(xs) - 1, eyeMaxX |-> SeqMax(xs) + 1,
        eyeMinY |-> SeqMin(ys) - 1, eyeMaxY |-> SeqMax(ys) + 1]

\* Gaze mapping of processVideo: min-max normalization, clamped, x mirrored, scaled to
\* the container.
P0_Norm(v, lo, hi) == Max2(0, Min2(hi - lo, v - lo))
P0_MapGaze(eye, map) ==
    [x |-> (Px(Window.innerWidth) * ((map.eyeMaxX - map.eyeMinX) - P0_Norm(eye.x, map.eyeMinX, map.eyeMaxX)))
              \div (map.eyeMaxX - map.eyeMinX),
     y |-> (Px(Window.innerHeight) * P0_Norm(eye.y, map.eyeMinY, map.eyeMaxY))
              \div (map.eyeMaxY - map.eyeMinY)]

\* processVideo(captureOnly): what it returns ...
P0_EyePos(obs, captureOnly) ==
    IF captureOnly /\ obs.kind = "face" /\ (obs.left \/ obs.right) THEN << obs.eye >> ELSE << >>
\* ... and what it does to the blink refs, the click indicator and the target.
P0_processVideo(obs, captureOnly) ==
    IF obs.kind = "none"
    THEN UNCHANGED << leftEyeOpen, rightEyeOpen, leftEyeBlinked, rightEyeBlinked,
                      clickState, blinkTimeout, targetPosition >>
    ELSE IF obs.kind = "noface"
    THEN /\ leftEyeOpen' = FALSE
         /\ rightEyeOpen' = FALSE
         /\ UNCHANGED << leftEyeBlinked, rightEyeBlinked, clickState, blinkTimeout,
                         targetPosition >>
    ELSE LET lb == leftEyeBlinked \/ (leftEyeOpen /\ ~obs.left)
             rb == rightEyeBlinked \/ (rightEyeOpen /\ ~obs.right)
         IN /\ leftEyeOpen' = obs.left
            /\ rightEyeOpen' = obs.right
            /\ IF (obs.left \/ obs.right) /\ ~captureOnly
               THEN /\ leftEyeBlinked' = FALSE
                    /\ rightEyeBlinked' = FALSE
                    /\ IF mode = "Click"
                       THEN /\ clickState' = IF rb THEN "right" ELSE IF lb THEN "left"
                                             ELSE clickState
                            /\ blinkTimeout' = TRUE
                       ELSE UNCHANGED << clickState, blinkTimeout >>
                    /\ targetPosition' = IF mode = "Gaze" /\ calibrationMap # << >>
                                         THEN P0_MapGaze(obs.eye, calibrationMap[1])
                                         ELSE targetPosition
               ELSE /\ leftEyeBlinked' = lb
                    /\ rightEyeBlinked' = rb
                    /\ UNCHANGED << clickState, blinkTimeout, targetPosition >>

\* What the actions of part_000 never touch.
p0Unused == << leftEyeState, rightEyeState, clickTimers, eyePosition, smoothedCursorPos,
               calibrationPointIndex, calibrationStateRef, calibrationDataRef, captureTimer,
               autoStartTimers, cursorLoop, corrVars, fired, run, closedFor, lastOp,
               variant, modeRef, canPlays, fnVars, filters >>

handleEnableWebcam ==
    /\ ~effectsPending
    /\ ~isWebcamEnabled
    /\ isWebcamEnabled' = TRUE
    /\ effectsPending' = TRUE
    /\ UNCHANGED << classifiersLoaded, currentPointIndex, calibrationMap, mode, chains,
                    calDeps, leftEyeOpen, rightEyeOpen, leftEyeBlinked, rightEyeBlinked,
                    blinkTimeout, recalibrations, calibrationState, calibrationData,
                    targetPosition, cursorPosition, clickState, smoothSteps >>
    /\ UNCHANGED << p0Unused, oldRunSamples >>
\* loadClassifiers resolves.
loadClassifiers ==
    /\ ~effectsPending
    /\ ~classifiersLoaded
    /\ classifiersLoaded' = TRUE
    /\ effectsPending' = TRUE
    /\ UNCHANGED << isWebcamEnabled, currentPointIndex, calibrationMap, mode, chains,
                    calDeps, leftEyeOpen, rightEyeOpen, leftEyeBlinked, rightEyeBlinked,
                    blinkTimeout, recalibrations, calibrationState, calibrationData,
                    targetPosition, cursorPosition, clickState, smoothSteps >>
    /\ UNCHANGED << p0Unused, oldRunSamples >>

\* The effects of one commit.  Auto-start calibration when ready sets inProgress (seen
\* by the next commit); Calibration process runs processPoint when its dependencies
\* changed: it finishes the run, or arms the timers of the current point.  Neither
\* returns a cleanup.
P0_Deps == << calibrationState, currentPointIndex, classifiersLoaded, isWebcamEnabled >>
P0_AutoStart == isWebcamEnabled /\ classifiersLoaded /\ calibrationState = "notStarted"
P0_ProcessPointRuns ==
    /\ P0_Deps # calDeps
    /\ calibrationState = "inProgress" /\ classifiersLoaded /\ isWebcamEnabled
NewChain(i) == [idx |-> i, phase |-> "dwell", sum |-> Origin, n |-> 0, ticks |-> 0,
                stale |-> FALSE]
processPoint ==
    IF currentPointIndex >= Len(P0_CALIBRATION_POINTS)
    THEN /\ calibrationMap' = << P0_BuildMap(calibrationData) >>
         /\ calibrationState' = "finished"
         /\ UNCHANGED chains
    ELSE /\ chains' = Append(chains, NewChain(currentPointIndex))
         /\ UNCHANGED << calibrationMap, calibrationState >>
P0_RunEffects ==
    /\ effectsPending
    /\ calDeps' = P0_Deps
    /\ IF P0_ProcessPointRuns
       THEN processPoint
       ELSE /\ calibrationState' = IF P0_AutoStart THEN "inProgress" ELSE calibrationState
            /\ UNCHANGED << calibrationMap, chains >>
    /\ effectsPending' = (calibrationState' # calibrationState)
    /\ UNCHANGED << isWebcamEnabled, classifiersLoaded, currentPointIndex, mode,
                    leftEyeOpen, rightEyeOpen, leftEyeBlinked, rightEyeBlinked,
                    blinkTimeout, recalibrations, calibrationData,
                    targetPosition, cursorPosition, clickState, smoothSteps >>
    /\ UNCHANGED << p0Unused, oldRunSamples >>

\* The 2000 ms dwell timer of a processPoint call fires: the readings start empty, the
\* capture interval and the 1000 ms capture-window timer are armed.
DwellTimer ==
    /\ ~effectsPending
    /\ \E c \in 1..Len(chains) :
         /\ chains[c].phase = "dwell"
         /\ chains' = [chains EXCEPT ![c].phase = "capture"]
    /\ UNCHANGED << isWebcamEnabled, classifiersLoaded, currentPointIndex, calibrationMap,
                    mode, calDeps, leftEyeOpen, rightEyeOpen, leftEyeBlinked,
                    rightEyeBlinked, blinkTimeout, recalibrations, calibrationState,
                    calibrationData, targetPosition, cursorPosition, clickState,
                    smoothSteps, effectsPending >>
    /\ UNCHANGED << p0Unused, oldRunSamples >>
\* A tick of the 100 ms capture interval: processVideo(true), its reading is kept.
CaptureTick(obs) ==
    /\ ~effectsPending
    /\ \E c \in 1..Len(chains) :
         /\ chains[c].phase = "capture"
         /\ chains[c].ticks < MaxTicks
         /\ LET got == P0_EyePos(obs, TRUE)
            IN chains' = [chains EXCEPT
                 ![c].ticks = @ + 1,
                 ![c].n = IF got = << >> THEN @ ELSE @ + 1,
                 ![c].sum = IF got = << >> THEN @
                            ELSE [x |-> @.x + got[1].x, y |-> @.y + got[1].y]]
    /\ P0_processVideo(obs, TRUE)
    /\ UNCHANGED << isWebcamEnabled, classifiersLoaded, currentPointIndex, calibrationMap,
                    mode, calDeps, recalibrations, calibrationState, calibrationData,
                    cursorPosition, smoothSteps, effectsPending >>
    /\ UNCHANGED << p0Unused, oldRunSamples >>
\* The sample of a capture window: the mean of the readings, or the point's own
\* position when there is none.
WindowSample(chain) ==
    [screen |-> P0_CALIBRATION_POINTS[chain.idx + 1],
     eye |-> IF chain.n > 0
             THEN [x |-> chain.sum.x \div chain.n, y |-> chain.sum.y \div chain.n]
             ELSE P0_CALIBRATION_POINTS[chain.idx + 1]]
\* The capture-window timer fires: the interval is cleared, the sample is pushed and
\* the point index advanced.
\* (A timer that pushes nothing when no reading was captured.)
WindowTimer_DropsEmptyWindow ==
    /\ ~effectsPending
    /\ \E c \in 1..Len(chains) :
         /\ chains[c].phase = "capture"
         /\ chains' = RemoveAt(chains, c)
         /\ IF chains[c].n > 0
            THEN /\ calibrationData' = Append(calibrationData, WindowSample(chains[c]))
                 /\ currentPointIndex' = currentPointIndex + 1
                 /\ effectsPending' = TRUE
            ELSE UNCHANGED << calibrationData, currentPointIndex, effectsPending >>
    /\ UNCHANGED << isWebcamEnabled, classifiersLoaded, calibrationMap, mode, calDeps,
                    leftEyeOpen, rightEyeOpen, leftEyeBlinked, rightEyeBlinked,
                    blinkTimeout, recalibrations, oldRunSamples, calibrationState,
                    targetPosition, cursorPosition, clickState, smoothSteps >>
    /\ UNCHANGED p0Unused
WindowTimer ==
    /\ ~effectsPending
    /\ \E c \in 1..Len(chains) :
         /\ chains[c].phase = "capture"
         /\ calibrationData' = Append(calibrationData, WindowSample(chains[c]))
         /\ chains' = RemoveAt(chains, c)
         /\ oldRunSamples' = oldRunSamples + (IF chains[c].stale THEN 1 ELSE 0)
    /\ currentPointIndex' = currentPointIndex + 1
    /\ effectsPending' = TRUE
    /\ UNCHANGED << isWebcamEnabled, classifiersLoaded, calibrationMap, mode, calDeps,
                    leftEyeOpen, rightEyeOpen, leftEyeBlinked, rightEyeBlinked,
                    blinkTimeout, recalibrations, calibrationState,
                    targetPosition, cursorPosition, clickState, smoothSteps >>
    /\ UNCHANGED p0Unused

\* The Recalibrate button.
handleRecalibrate ==
    /\ ~effectsPending
    /\ recalibrations < MaxRecalibrations
    /\ recalibrations' = recalibrations + 1
    /\ calibrationData' = << >>
    /\ calibrationMap' = << >>
    /\ currentPointIndex' = 0
    /\ calibrationState' = "notStarted"
    /\ mode' = "None"
    /\ targetPosition' = P0_Centre
    /\ cursorPosition' = P0_Centre
    /\ effectsPending' = TRUE
    /\ chains' = [c \in 1..Len(chains) |-> [chains[c] EXCEPT !.stale = TRUE]]
    /\ oldRunSamples' = 0
    /\ UNCHANGED << isWebcamEnabled, classifiersLoaded, calDeps, leftEyeOpen, rightEyeOpen,
                    leftEyeBlinked, rightEyeBlinked, blinkTimeout, clickState, smoothSteps >>
    /\ UNCHANGED p0Unused

\* Key g / c pressed or released (ignored until calibration has finished).
P0_handleKeyDown(key) ==
    /\ ~effectsPending
    /\ calibrationState = "finished"
    /\ mode' = IF key = "g" THEN "Gaze" ELSE "Click"
    /\ UNCHANGED << isWebcamEnabled, classifiersLoaded, currentPointIndex, calibrationMap,
                    chains, calDeps, leftEyeOpen, rightEyeOpen, leftEyeBlinked,
                    rightEyeBlinked, blinkTimeout, recalibrations, calibrationState,
                    calibrationData, targetPosition, cursorPosition, clickState,
                    smoothSteps, effectsPending >>
    /\ UNCHANGED << p0Unused, oldRunSamples >>
P0_handleKeyUp(key) ==
    /\ ~effectsPending
    /\ calibrationState = "finished"
    /\ \/ key = "g" /\ mode = "Gaze" /\ mode' = "None" /\ UNCHANGED blinkTimeout
       \/ key = "c" /\ mode = "Click" /\ mode' = "None" /\ blinkTimeout' = FALSE
    /\ UNCHANGED << isWebcamEnabled, classifiersLoaded, currentPointIndex, calibrationMap,
                    chains, calDeps, leftEyeOpen, rightEyeOpen, leftEyeBlinked,
                    rightEyeBlinked, recalibrations, calibrationState,
                    calibrationData, targetPosition, cursorPosition, clickState,
                    smoothSteps, effectsPending >>
    /\ UNCHANGED << p0Unused, oldRunSamples >>
\* The 150 ms reset of the click indicator fires.
P0_BlinkTimeout ==
    /\ ~effectsPending
    /\ blinkTimeout
    /\ blinkTimeout' = FALSE
    /\ clickState' = None
    /\ UNCHANGED << isWebcamEnabled, classifiersLoaded, currentPointIndex, calibrationMap,
                    mode, chains, calDeps, leftEyeOpen, rightEyeOpen, leftEyeBlinked,
                    rightEyeBlinked, recalibrations, calibrationState,
                    calibrationData, targetPosition, cursorPosition,
                    smoothSteps, effectsPending >>
    /\ UNCHANGED << p0Unused, oldRunSamples >>

\* mainLoop: one animation frame once calibration has finished: processVideo() then
\* smoothMove() (the smoothing reads the target this frame wrote).
mainLoop(obs) ==
    /\ ~effectsPending
    /\ isWebcamEnabled /\ classifiersLoaded
    /\ calibrationState = "finished"
    /\ smoothSteps < MaxSmoothSteps
    /\ smoothSteps' = smoothSteps + 1
    /\ P0_processVideo(obs, FALSE)
    /\ cursorPosition' = [x |-> Lerp(cursorPosition.x, targetPosition'.x),
                          y |-> Lerp(cursorPosition.y, targetPosition'.y)]
    /\ UNCHANGED << isWebcamEnabled, classifiersLoaded, currentPointIndex, calibrationMap,
                    mode, chains, calDeps, recalibrations, calibrationState,
                    calibrationData, effectsPending >>
    /\ UNCHANGED << p0Unused, oldRunSamples >>

(* ================ src/unnamed/part_001: timed calibration ============== *)
\* The first program of part_001 has the nine targets, the blink constants, the
\* startCalibration, the auto-start and the capture timer of src/App.tsx, word for
\* word; they are shared.  Its frame and its calibration effect differ.
P1_CALIBRATION_POINTS == CALIBRATION_POINTS
\* One frame of its processing loop: without two eyes nothing is stored; the blink
\* detectors click only in Click mode.
P1_processVideo(obs) ==
    /\ ~effectsPending
    /\ lastOp' = Other
    /\ IF obs.detected
       THEN LET l == updateBlinkState(leftEyeState, obs.leftEAR)
                r == updateBlinkState(rightEyeState, obs.rightEAR)
            IN /\ run.left + 1 <= MaxRun \/ obs.leftEAR >= EAR_THRESHOLD
               /\ run.right + 1 <= MaxRun \/ obs.rightEAR >= EAR_THRESHOLD
               /\ eyePosition' = obs.eye
               /\ leftEyeState' = l.next
               /\ rightEyeState' = r.next
               /\ IF modeRef = "Click"
                  THEN triggerClick(l.click, r.click)
                  ELSE UNCHANGED << clickState, clickTimers >>
               /\ fired' = [left |-> l.click /\ modeRef = "Click",
                            right |-> r.click /\ modeRef = "Click"]
               /\ run' = [left |-> NextRun(run.left, obs.leftEAR),
                          right |-> NextRun(run.right, obs.rightEAR)]
               /\ closedFor' = [left |-> NextClosedFor(run.left, obs.leftEAR),
                                right |-> NextClosedFor(run.right, obs.rightEAR)]
       ELSE /\ fired' = [left |-> FALSE, right |-> FALSE]
            /\ closedFor' = [left |-> 0, right |-> 0]
            /\ UNCHANGED << eyePosition, blinkVars, run >>
    /\ UNCHANGED << targetPosition, smoothedCursorPos, cursorPosition, calVars, corrVars,
                    smoothSteps >>
    /\ UNCHANGED extVars
\* The CalibrationMap of its effect: the bounding box of the eye components widened by
\* a tenth of its extent, in thousandths.
\* A box padded above only.
P1_BuildMap_PadsMaxOnly(data) ==
    LET xs == [i \in 1..Len(data) |-> data[i].eye.x]
        ys == [i \in 1..Len(data) |-> data[i].eye.y]
    IN [eyeMinX |-> 10 * SeqMin(xs),
        eyeMaxX |-> 10 * SeqMax(xs) + (SeqMax(xs) - SeqMin(xs)),
        eyeMinY |-> 10 * SeqMin(ys),
        eyeMaxY |-> 10 * SeqMax(ys) + (SeqMax(ys) - SeqMin(ys))]
P1_BuildMap(data) ==
    LET xs == [i \in 1..Len(data) |-> data[i].eye.x]
        ys == [i \in 1..Len(data) |-> data[i].eye.y]
    IN [eyeMinX |-> 10 * SeqMin(xs) - (SeqMax(xs) - SeqMin(xs)),
        eyeMaxX |-> 10 * SeqMax(xs) + (SeqMax(xs) - SeqMin(xs)),
        eyeMinY |-> 10 * SeqMin(ys) - (SeqMax(ys) - SeqMin(ys)),
        eyeMaxY |-> 10 * SeqMax(ys) + (SeqMax(ys) - SeqMin(ys))]
\* Calibration Logic: the cleanup clears the previous timer; a new timer is set for the
\* current target, or the run is finished if it has TOTAL_CALIBRATION_POINTS samples.
P1_CalibrationLogicEffect_KeepsMap ==
    IF calibrationState = "inProgress" /\ calibrationPointIndex < TOTAL_CALIBRATION_POINTS
    THEN /\ captureTimer' = {calibrationPointIndex}
         /\ effectsPending' = FALSE
         /\ UNCHANGED << calibrationState, calibrationMap >>
    ELSE IF calibrationState = "inProgress"
            /\ Len(calibrationData) = TOTAL_CALIBRATION_POINTS
    THEN /\ captureTimer' = {}
         /\ calibrationMap' = IF calibrationMap = << >> THEN << P1_BuildMap(calibrationData) >>
                              ELSE calibrationMap
         /\ calibrationState' = "finished"
         /\ effectsPending' = TRUE
    ELSE /\ captureTimer' = {}
         /\ effectsPending' = FALSE
         /\ UNCHANGED << calibrationState, calibrationMap >>
P1_CalibrationLogicEffect ==
    IF calibrationState = "inProgress" /\ calibrationPointIndex < TOTAL_CALIBRATION_POINTS
    THEN /\ captureTimer' = {calibrationPointIndex}
         /\ effectsPending' = FALSE
         /\ UNCHANGED << calibrationState, calibrationMap >>
    ELSE IF calibrationState = "inProgress"
            /\ Len(calibrationData) = TOTAL_CALIBRATION_POINTS
    THEN /\ captureTimer' = {}
         /\ calibrationMap' = << P1_BuildMap(calibrationData) >>
         /\ calibrationState' = "finished"
         /\ effectsPending' = TRUE
    ELSE /\ captureTimer' = {}
         /\ effectsPending' = FALSE
         /\ UNCHANGED << calibrationState, calibrationMap >>
\* The effects of one commit: the mode ref, the calibration effect, the cursor loop.
P1_RunEffects ==
    /\ effectsPending
    /\ modeRef' = mode
    /\ P1_CalibrationLogicEffect
    /\ cursorLoop' = (calibrationState = "finished")
    /\ lastOp' = Other
    /\ UNCHANGED << calibrationPointIndex, calibrationData, calibrationStateRef,
                    calibrationDataRef, autoStartTimers, blinkVars, cursorVars, corrVars,
                    fired, run, closedFor, smoothSteps, variant, p0Rest, canPlays,
                    fnVars, filters >>

\* updateCursor: min-max normalization of one axis, clamped: the numerator over the
\* range hi - lo (the map is in thousandths, v in hundredths).
P1_Norm_Unclamped(v, lo, hi) == 10 * v - lo
P1_Norm(v, lo, hi) == Max2(0, Min2(hi - lo, 10 * v - lo))

\* The Recalibrate button of its StatusDisplay (onRecalibrate = startCalibration).
P1_Recalibrate ==
    /\ ~effectsPending
    /\ recalibrations < MaxRecalibrations
    /\ recalibrations' = recalibrations + 1
    /\ startCalibration
    /\ lastOp' = Other
    /\ UNCHANGED << calibrationStateRef, calibrationDataRef, captureTimer, autoStartTimers,
                    cursorLoop, blinkVars, cursorVars, corrVars, fired, run, closedFor,
                    smoothSteps, variant, modeRef, canPlays, fnVars, filters,
                    isWebcamEnabled, classifiersLoaded, currentPointIndex, calibrationMap,
                    mode, chains, calDeps, leftEyeOpen, rightEyeOpen, leftEyeBlinked,
                    rightEyeBlinked, blinkTimeout, oldRunSamples >>
\* Keyboard controls: g / c pressed (ignored until calibration has finished) or
\* released.
P1_SetMode(m) ==
    /\ mode' = m
    /\ effectsPending' = (m # mode)
    /\ lastOp' = Other
    /\ UNCHANGED << calibrationState, calibrationPointIndex, calibrationData,
                    calibrationStateRef, calibrationDataRef, captureTimer, autoStartTimers,
                    cursorLoop, blinkVars, cursorVars, corrVars, fired, run, closedFor,
                    smoothSteps, variant, modeRef, canPlays, fnVars, filters,
                    isWebcamEnabled, classifiersLoaded, currentPointIndex, calibrationMap,
                    chains, calDeps, leftEyeOpen, rightEyeOpen, leftEyeBlinked,
                    rightEyeBlinked, blinkTimeout, recalibrations, oldRunSamples >>
P1_handleKeyDown(key) ==
    /\ ~effectsPending
    /\ calibrationState = "finished"
    /\ P1_SetMode(IF key = "g" THEN "Gaze" ELSE "Click")
P1_handleKeyUp(key) ==
    /\ ~effectsPending
    /\ \/ key = "g" /\ mode = "Gaze"
       \/ key = "c" /\ mode = "Click"
    /\ P1_SetMode("None")

\* OneEuroFilter.  The smoothing factor a = r / (r + 1) depends on the time since the
\* previous call: it is an input, in quarters, 0 standing for no time elapsed
\* (t_e <= 0), where the filter returns x_prev and stores nothing.
NaN == 0 - 1
SmoothingQuarters == { 0, 2 }
NewFilter == [firstTime |-> TRUE, x_prev |-> 0]
\* The filter after filter(x); what it returns is the x_prev it then holds.
Filter(f, x, a) ==
    IF f.firstTime THEN [firstTime |-> FALSE, x_prev |-> x]
    ELSE IF a = 0 THEN f
    ELSE [f EXCEPT !.x_prev = IF x = NaN \/ f.x_prev = NaN THEN NaN
                              ELSE f.x_prev + (a * (x - f.x_prev)) \div 4]
\* targetX / targetY of updateCursor, in window pixels.
P1_Target(v, lo, hi, extent) == (P1_Norm(v, lo, hi) * Px(extent)) \div (hi - lo)
\* What the update does once its guards passed (both filters are called in the same
\* frame: the time elapsed is taken to be the same for both).
P1_MoveCursor(tx, ty) ==
    \E a \in SmoothingQuarters :
       /\ filters' = [x |-> Filter(filters.x, tx, a), y |-> Filter(filters.y, ty, a)]
       /\ cursorPosition' = [x |-> filters'.x.x_prev, y |-> filters'.y.x_prev]
       /\ targetPosition' = [x |-> tx, y |-> ty]
\* One animation frame of the Cursor Update Loop of part_001.
P1_updateCursor ==
    /\ ~effectsPending
    /\ cursorLoop
    /\ smoothSteps < MaxSmoothSteps
    /\ smoothSteps' = smoothSteps + 1
    /\ lastOp' = [op |-> "updateCursor"]
    /\ IF /\ modeRef = "Gaze"
          /\ calibrationMap # << >>
          /\ calibrationMap[1].eyeMaxX - calibrationMap[1].eyeMinX # 0
          /\ calibrationMap[1].eyeMaxY - calibrationMap[1].eyeMinY # 0
       THEN LET map == calibrationMap[1]
            IN P1_MoveCursor(P1_Target(eyePosition.x, map.eyeMinX, map.eyeMaxX, Window.innerWidth),
                             P1_Target(eyePosition.y, map.eyeMinY, map.eyeMaxY, Window.innerHeight))
       ELSE UNCHANGED << filters, cursorPosition, targetPosition >>
    /\ UNCHANGED << eyePosition, smoothedCursorPos, blinkVars, calVars, corrVars, fired, run,
                    closedFor, variant, p0Vars, modeRef, canPlays, fnVars >>

(* ============ src/unnamed/part_005 (and part_003): cursor loop ========== *)
\* The first program of part_005 has the startCalibration, the calibration effect and
\* the auto-start of part_001, word for word; the eye position is the mouse position
\* over the video, and its updateCursor (the one of part_003, lines 317-335) has no
\* range guard.
P5_handleMouseMove(eye) ==
    /\ ~effectsPending
    /\ eyePosition' = eye
    /\ lastOp' = Other
    /\ UNCHANGED << targetPosition, smoothedCursorPos, cursorPosition, blinkVars, calVars,
                    corrVars, fired, run, closedFor, smoothSteps >>
    /\ UNCHANGED extVars
\* Math.max(0, Math.min(1, (raw - min) / (max - min))) * extent: with max = min the
\* quotient is Infinity, -Infinity or (0 / 0) NaN, which the clamps turn into 1, 0, NaN.
P5_Target(v, lo, hi, extent) ==
    IF hi - lo # 0 THEN P1_Target(v, lo, hi, extent)
    ELSE IF 10 * v > lo THEN Px(extent)
    ELSE IF 10 * v < lo THEN 0
    ELSE NaN
\* One animation frame of its gaze tracking loop (requested while finished and Gaze).
P5_updateCursor ==
    /\ ~effectsPending
    /\ cursorLoop
    /\ smoothSteps < MaxSmoothSteps
    /\ smoothSteps' = smoothSteps + 1
    /\ lastOp' = [op |-> "updateCursor"]
    /\ IF mode = "Gaze" /\ calibrationMap # << >>
       THEN LET map == calibrationMap[1]
            IN P1_MoveCursor(P5_Target(eyePosition.x, map.eyeMinX, map.eyeMaxX, Window.innerWidth),
                             P5_Target(eyePosition.y, map.eyeMinY, map.eyeMaxY, Window.innerHeight))
       ELSE UNCHANGED << filters, cursorPosition, targetPosition >>
    /\ UNCHANGED << eyePosition, smoothedCursorPos, blinkVars, calVars, corrVars, fired, run,
                    closedFor, variant, p0Vars, modeRef, canPlays, fnVars >>
\* The effects of one commit: the calibration effect, the gaze tracking loop.
P5_RunEffects ==
    /\ effectsPending
    /\ P1_CalibrationLogicEffect
    /\ cursorLoop' = (calibrationState = "finished" /\ mode = "Gaze")
    /\ lastOp' = Other
    /\ UNCHANGED << calibrationPointIndex, calibrationData, calibrationStateRef,
                    calibrationDataRef, autoStartTimers, blinkVars, cursorVars, corrVars,
                    fired, run, closedFor, smoothSteps, variant, p0Rest, modeRef, canPlays,
                    fnVars, filters >>

(* ------------------------ src/unnamed/part_003 ------------------------- *)
\* part_003 has the nine targets, the capture timer, the calibration effect and the
\* keyboard controls of part_001, word for word; they are shared.  Its startCalibration,
\* its canplay listener, its frame and its click reset differ.
P3_EAR_THRESHOLD == 22
MIN_BLINK_DURATION_MS == 80
MAX_BLINK_DURATION_MS == 500
\* performance.now() minus the timestamp of the closure, on the frame that reopens an
\* eye: below, inside and above the accepted durations.
P3_Durations == { 50, 100, 600 }
\* Enhanced Blink Detection of one eye: whether the eye is OPEN afterwards and whether
\* the closure it ends is a blink.
P3_Blink(open, ear, duration) ==
    [open |-> ear >= P3_EAR_THRESHOLD,
     click |-> /\ ear >= P3_EAR_THRESHOLD
               /\ ~open
               /\ duration >= MIN_BLINK_DURATION_MS
               /\ duration <= MAX_BLINK_DURATION_MS]
\* One frame of its processing loop: without two eyes nothing is stored; a blink sets
\* the click indicator in Click mode, the right eye last.
P3_processVideo(obs, leftDuration, rightDuration) ==
    /\ ~effectsPending
    /\ lastOp' = Other
    /\ IF obs.detected
       THEN LET l == P3_Blink(leftEyeOpen, obs.leftEAR, leftDuration)
                r == P3_Blink(rightEyeOpen, obs.rightEAR, rightDuration)
                clicks == modeRef = "Click"
                shown == IF r.click /\ clicks THEN "right"
                         ELSE IF l.click /\ clicks THEN "left" ELSE clickState
            IN /\ eyePosition' = obs.eye
               /\ leftEyeOpen' = l.open
               /\ rightEyeOpen' = r.open
               /\ clickState' = shown
               /\ effectsPending' = (shown # clickState)
               /\ fired' = [left |-> l.click /\ clicks, right |-> r.click /\ clicks]
       ELSE /\ fired' = [left |-> FALSE, right |-> FALSE]
            /\ UNCHANGED << eyePosition, leftEyeOpen, rightEyeOpen, clickState,
                            effectsPending >>
    /\ UNCHANGED << leftEyeState, rightEyeState, clickTimers, calibrationState,
                    calibrationPointIndex, calibrationData, calibrationStateRef,
                    calibrationDataRef, captureTimer, autoStartTimers, cursorLoop,
                    targetPosition, smoothedCursorPos, cursorPosition, corrVars,
                    run, closedFor, smoothSteps >>
    /\ UNCHANGED << variant, isWebcamEnabled, classifiersLoaded, currentPointIndex,
                    calibrationMap, mode, chains, calDeps, leftEyeBlinked, rightEyeBlinked,
                    blinkTimeout, recalibrations, oldRunSamples, modeRef, canPlays, fnVars,
                    filters >>
\* startCalibration: nothing happens unless calibration has not started yet.
P3_startCalibration ==
    IF calibrationState # "notStarted"
    THEN UNCHANGED << calibrationState, calibrationPointIndex, calibrationData,
                      effectsPending >>
    ELSE startCalibration
\* The Recalibrate button of its StatusDisplay (onRecalibrate = startCalibration).
P3_Recalibrate ==
    /\ ~effectsPending
    /\ recalibrations < MaxRecalibrations
    /\ recalibrations' = recalibrations + 1
    /\ P3_startCalibration
    /\ lastOp' = Other
    /\ UNCHANGED << calibrationStateRef, calibrationDataRef, captureTimer, autoStartTimers,
                    cursorLoop, blinkVars, cursorVars, corrVars, fired, run, closedFor,
                    smoothSteps, variant, modeRef, canPlays, fnVars, filters,
                    isWebcamEnabled, classifiersLoaded, currentPointIndex, calibrationMap,
                    mode, chains, calDeps, leftEyeOpen, rightEyeOpen, leftEyeBlinked,
                    rightEyeBlinked, blinkTimeout, oldRunSamples >>
\* canplay arms the 1000 ms auto-start timer only while calibration has not started;
\* the timer calls the startCalibration of that render, whose calibrationState is
\* notStarted (AutoStartTimer).
P3_CanPlay ==
    /\ ~effectsPending
    /\ canPlays < MaxAutoStarts
    /\ canPlays' = canPlays + 1
    /\ autoStartTimers' = IF calibrationState = "notStarted" THEN autoStartTimers + 1
                          ELSE autoStartTimers
    /\ lastOp' = Other
    /\ UNCHANGED << calibrationState, calibrationPointIndex, calibrationData,
                    calibrationStateRef, calibrationDataRef, captureTimer, cursorLoop,
                    effectsPending, blinkVars, cursorVars, corrVars, fired, run, closedFor,
                    smoothSteps >>
    /\ UNCHANGED << variant, p0Vars, modeRef, fnVars, filters >>
\* The effects of one commit: the mode ref, the calibration effect, the cursor loop
\* (registered while finished in Gaze mode) and the 200 ms reset of the click
\* indicator, which its cleanup clears.
P3_RunEffects ==
    /\ effectsPending
    /\ modeRef' = mode
    /\ P1_CalibrationLogicEffect
    /\ cursorLoop' = (calibrationState = "finished" /\ mode = "Gaze")
    /\ clickTimers' = IF clickState # None THEN 1 ELSE 0
    /\ lastOp' = Other
    /\ UNCHANGED << calibrationPointIndex, calibrationData, calibrationStateRef,
                    calibrationDataRef, autoStartTimers, leftEyeState, rightEyeState,
                    clickState, cursorVars, corrVars, fired, run, closedFor, smoothSteps,
                    variant, p0Rest, canPlays, fnVars, filters >>

(* ------------- src/unnamed/part_005, second program: blinks ------------ *)
MaxStretchClicks == 2

BLINK_FRAMES_TO_CLOSE == 2
BLINK_COOLDOWN_FRAMES == 15
Open == [state |-> "open", frames |-> 0]
\* One update of a detector: its next value and blinkTriggered.
updateDetector(detector, isDetected) ==
    CASE detector.state = "open" ->
            [next |-> IF ~isDetected THEN [state |-> "closing", frames |-> 1] ELSE detector,
             blinkTriggered |-> FALSE]
      [] detector.state = "closing" ->
            IF ~isDetected
            THEN IF detector.frames + 1 >= BLINK_FRAMES_TO_CLOSE
                 THEN [next |-> [state |-> "closed", frames |-> detector.frames + 1],
                       blinkTriggered |-> TRUE]
                 ELSE [next |-> [detector EXCEPT !.frames = @ + 1], blinkTriggered |-> FALSE]
            ELSE [next |-> Open, blinkTriggered |-> FALSE]
      [] detector.state = "closed" ->
            [next |-> [state |-> "cooldown", frames |-> 1], blinkTriggered |-> FALSE]
      [] detector.state = "cooldown" ->
            [next |-> IF detector.frames + 1 >= BLINK_COOLDOWN_FRAMES
                      THEN Open
                      ELSE [detector EXCEPT !.frames = @ + 1],
             blinkTriggered |-> FALSE]

\* Observer: the clicks of one eye since it was last detected.
NextStretch(n, isDetected, blinked) ==
    IF isDetected THEN 0 ELSE n + (IF blinked THEN 1 ELSE 0)

processBlinks(leftEyeDetected, rightEyeDetected) ==
    LET l == updateDetector(leftBlinkDetector, leftEyeDetected)
        r == updateDetector(rightBlinkDetector, rightEyeDetected)
        leftBlinked == l.blinkTriggered
        rightBlinked == r.blinkTriggered
    IN /\ leftBlinkDetector' = l.next
       /\ rightBlinkDetector' = r.next
       /\ triggerClick(leftBlinked, rightBlinked)
       /\ IF leftBlinked \/ rightBlinked
          THEN /\ Len(blinkResets) < MaxClickTimers
               /\ eyeBlinkState' = [left |-> eyeBlinkState.left \/ leftBlinked,
                                    right |-> eyeBlinkState.right \/ rightBlinked]
               /\ blinkResets' = Append(blinkResets,
                                        [left |-> leftBlinked, right |-> rightBlinked])
          ELSE UNCHANGED << eyeBlinkState, blinkResets >>
       /\ fired' = [left |-> leftBlinked, right |-> rightBlinked]
       /\ stretchClicks' =
             [left |-> NextStretch(stretchClicks.left, leftEyeDetected, leftBlinked),
              right |-> NextStretch(stretchClicks.right, rightEyeDetected, rightBlinked)]
       /\ stretchClicks'.left <= MaxStretchClicks
       /\ stretchClicks'.right <= MaxStretchClicks

\* The 250 ms timeout of processBlinks fires, oldest first.
BlinkReset ==
    /\ blinkResets # << >>
    /\ eyeBlinkState' = [left |-> IF Head(blinkResets).left THEN FALSE ELSE eyeBlinkState.left,
                         right |-> IF Head(blinkResets).right THEN FALSE
                                   ELSE eyeBlinkState.right]
    /\ blinkResets' = Tail(blinkResets)
    /\ lastOp' = Other
    /\ UNCHANGED << leftBlinkDetector, rightBlinkDetector, detectionStatus, stretchClicks,
                    storeVars, screenVars, euro, argPoints, argEye, mapped >>
    /\ UNCHANGED << blinkVars, calVars, cursorVars, corrVars, fired, run, closedFor,
                    smoothSteps, variant, p0Vars, modeRef, canPlays, filters >>

\* What the cascades find in a frame: no face, or a face centred at eye with the eyes
\* that are told apart ("many": more than two eye regions).
EyesFound == { "none", "left", "right", "both", "many" }
P5b_NoFace == [face |-> FALSE]
P5b_Face(eye, eyes) == [face |-> TRUE, eye |-> eye, eyes |-> eyes]
\* One frame of the processing loop.
P5b_processVideo(obs) ==
    /\ lastOp' = Other
    /\ IF obs.face
       THEN /\ eyePosition' = obs.eye
            /\ detectionStatus' = IF obs.eyes = "none" THEN "face_detected" ELSE "tracking"
            /\ processBlinks(obs.eyes \in { "left", "both" }, obs.eyes \in { "right", "both" })
       ELSE /\ detectionStatus' = "searching"
            /\ fired' = [left |-> FALSE, right |-> FALSE]
            /\ UNCHANGED << eyePosition, leftBlinkDetector, rightBlinkDetector, clickState,
                            clickTimers, eyeBlinkState, blinkResets, stretchClicks >>
    /\ UNCHANGED << leftEyeState, rightEyeState, calVars, targetPosition, smoothedCursorPos,
                    cursorPosition, corrVars, run, closedFor, smoothSteps, variant, p0Vars,
                    modeRef, canPlays, filters >>
    /\ UNCHANGED << storeVars, screenVars, euro, argPoints, argEye, mapped >>

(* ---- src/components/CalibrationScreen.tsx and the store of part_005 ---- *)
MaxTargetClicks == 10
MaxAdvanceTimers == 2

\* What the callbacks of this program never touch.
p5bRest == << leftEyeState, rightEyeState, calVars, targetPosition, run,
              closedFor, smoothSteps, variant, isWebcamEnabled, classifiersLoaded,
              calibrationMap, mode, chains, calDeps, leftEyeOpen, rightEyeOpen,
              leftEyeBlinked, rightEyeBlinked, blinkTimeout, recalibrations,
              oldRunSamples, modeRef, canPlays, filters, argPoints, argEye, mapped, euro >>
p5bOthers == << p5bRest, corrVars >>

\* null as JSON.parse reads it.
Null == [none |-> TRUE]
\* localStorage under the key: no item, or an item with its text.
NoItem == [present |-> FALSE, text |-> << >>]
Item(text) == [present |-> TRUE, text |-> text]
\* A text of localStorage as its tokens; a number is its own token.
Tok(t) == [tok |-> t, num |-> 0]
Num(n) == [tok |-> "number", num |-> n]
\* JSON.stringify of a number: NaN is written as null.
NumberText(n) == IF n = NaN THEN Tok("null") ELSE Num(n)
\* JSON.stringify of a sample, the keys screen, eye and x, y in the order of the literal.
SampleText(p) ==
    << Tok("{"), NumberText(p.screen.x), NumberText(p.screen.y),
       NumberText(p.eye.x), NumberText(p.eye.y), Tok("}") >>
RECURSIVE ArrayText(_)
ArrayText(data) ==
    IF data = << >> THEN << >> ELSE SampleText(Head(data)) \o ArrayText(Tail(data))
JSON_stringify(data) == << Tok("[") >> \o ArrayText(data) \o << Tok("]") >>
\* JSON.parse of a number token: null is read as null.
NumberOf(t) == IF t.tok = "number" THEN t.num ELSE Null
IsSampleText(text) ==
    /\ Len(text) = 6
    /\ text[1] = Tok("{")
    /\ \A i \in 2..5 : text[i].tok \in { "number", "null" }
    /\ text[6] = Tok("}")
SampleOf(text) ==
    [screen |-> [x |-> NumberOf(text[2]), y |-> NumberOf(text[3])],
     eye |-> [x |-> NumberOf(text[4]), y |-> NumberOf(text[5])]]
\* JSON.parse: the value read, or a SyntaxError.
JSON_parse(text) ==
    IF text = << Tok("null") >> THEN [kind |-> "null"]
    ELSE IF text = << Tok("{"), Tok("}") >> THEN [kind |-> "object"]
    ELSE IF /\ Len(text) >= 2
            /\ Head(text) = Tok("[")
            /\ text[Len(text)] = Tok("]")
            /\ (Len(text) - 2) % 6 = 0
            /\ \A k \in 0..((Len(text) - 2) \div 6 - 1) :
                  IsSampleText(SubSeq(text, 6 * k + 2, 6 * k + 7))
    THEN [kind |-> "array",
          items |-> [k \in 1..((Len(text) - 2) \div 6) |->
                       SampleOf(SubSeq(text, 6 * k - 4, 6 * k + 1))]]
    ELSE [kind |-> "SyntaxError"]

\* CalibrationScreen is mounted afresh.
NewScreen ==
    /\ currentPointIndex' = 0
    /\ collectedData' = << >>
    /\ showFeedback' = FALSE
\* The timers of an instance that is gone keep their closures.
Orphaned(timers) == [i \in 1..Len(timers) |-> [timers[i] EXCEPT !.mounted = FALSE]]

handleCalibrationComplete_NoStore(data) ==
    /\ correctionData' = data
    /\ storage' = storage
    /\ isCalibrated' = TRUE
handleCalibrationComplete(data) ==
    /\ correctionData' = data
    /\ storage' = Item(JSON_stringify(data))
    /\ isCalibrated' = TRUE

\* Clear in StatusDisplay, which is rendered once calibrated; CalibrationScreen is
\* rendered again.
handleClearCorrections ==
    /\ isCalibrated
    /\ correctionData' = << >>
    /\ storage' = NoItem
    /\ isCalibrated' = FALSE
    /\ NewScreen
    /\ completions' = << >>
    /\ lastOp' = [op |-> "clear"]
    /\ UNCHANGED << advanceTimers, detVars, clickState, clickTimers, cursorVars, fired,
                    p5bOthers >>

\* A click on the target shown.
handleTargetClick ==
    /\ ~isCalibrated
    /\ Len(collectedData) < MaxTargetClicks
    /\ Len(advanceTimers) < MaxAdvanceTimers
    /\ LET screenPoint == CALIBRATION_POINTS[currentPointIndex + 1]
           newCalibrationPoint ==
               [screen |-> [x |-> (screenPoint.x * Window.innerWidth) \div 100,
                            y |-> (screenPoint.y * Window.innerHeight) \div 100],
                eye |-> eyePosition]
           updatedData == Append(collectedData, newCalibrationPoint)
       IN /\ showFeedback' = TRUE
          /\ collectedData' = updatedData
          /\ advanceTimers' = Append(advanceTimers,
                                     [currentPointIndex |-> currentPointIndex,
                                      updatedData |-> updatedData, mounted |-> TRUE])
    /\ lastOp' = [op |-> "targetClick"]
    /\ UNCHANGED << currentPointIndex, completions, storeVars, detVars, clickState,
                    clickTimers, cursorVars, fired, p5bOthers >>

\* The 300 ms timeout of handleTargetClick fires, oldest first.
AdvanceTimer ==
    /\ advanceTimers # << >>
    /\ LET c == Head(advanceTimers)
       IN IF c.currentPointIndex + 1 >= TOTAL_CALIBRATION_POINTS
          THEN /\ handleCalibrationComplete(c.updatedData)
               /\ completions' = Append(completions, c.updatedData)
               /\ IF isCalibrated
                  THEN UNCHANGED << currentPointIndex, collectedData, showFeedback >>
                  ELSE NewScreen
               /\ advanceTimers' = Orphaned(Tail(advanceTimers))
          ELSE /\ currentPointIndex' =
                     IF c.mounted THEN c.currentPointIndex + 1 ELSE currentPointIndex
               /\ showFeedback' = IF c.mounted THEN FALSE ELSE showFeedback
               /\ advanceTimers' = Tail(advanceTimers)
               /\ UNCHANGED << collectedData, completions, storeVars >>
    /\ lastOp' = [op |-> "advance"]
    /\ UNCHANGED << detVars, clickState, clickTimers, cursorVars, fired, p5bOthers >>

\* The page is loaded again: every timer and all state but localStorage is gone, and the
\* effect that loads the calibration data on mount runs.
P5b_Mount ==
    /\ LET savedData == storage
           parsedData == JSON_parse(savedData.text)
       IN IF savedData.present /\ savedData.text # << >>
          THEN IF parsedData.kind = "SyntaxError"
               THEN /\ storage' = NoItem
                    /\ correctionData' = << >>
                    /\ isCalibrated' = FALSE
               ELSE IF parsedData.kind = "array" /\ Len(parsedData.items) > 0
               THEN /\ correctionData' = parsedData.items
                    /\ isCalibrated' = TRUE
                    /\ UNCHANGED storage
               ELSE /\ correctionData' = << >>
                    /\ isCalibrated' = FALSE
                    /\ UNCHANGED storage
          ELSE /\ correctionData' = << >>
               /\ isCalibrated' = FALSE
               /\ UNCHANGED storage
    /\ NewScreen
    /\ advanceTimers' = << >>
    /\ leftBlinkDetector' = Open
    /\ rightBlinkDetector' = Open
    /\ eyeBlinkState' = [left |-> FALSE, right |-> FALSE]
    /\ blinkResets' = << >>
    /\ detectionStatus' = "searching"
    /\ stretchClicks' = [left |-> 0, right |-> 0]
    /\ clickState' = None
    /\ clickTimers' = 0
    /\ eyePosition' = [x |-> 50, y |-> 50]
    /\ smoothedCursorPos' = ScreenCentre
    /\ cursorPosition' = ScreenCentre
    /\ fired' = [left |-> FALSE, right |-> FALSE]
    /\ isCorrectionMode' = FALSE
    /\ correctionFeedback' = FALSE
    /\ feedbackTimers' = 0
    /\ lastOp' = [op |-> "mount"]
    /\ UNCHANGED << completions, p5bRest >>

\* A click anywhere in the application: a live correction while Shift is held, once
\* calibrated.  The sample is appended to the set in memory and the cursor jumps to
\* the click.
P5b_handleCorrectionClick(e) ==
    /\ lastOp' = [op |-> "click", event |-> e, accepted |-> isCorrectionMode /\ isCalibrated]
    /\ IF ~isCorrectionMode \/ ~isCalibrated
       THEN UNCHANGED << correctionData, smoothedCursorPos, cursorPosition,
                         correctionFeedback, feedbackTimers >>
       ELSE LET newCorrection == [screen |-> [x |-> e.clientX, y |-> e.clientY],
                                  eye |-> eyePosition]
            IN /\ Len(correctionData) < TOTAL_CALIBRATION_POINTS + MaxCorrections
               /\ feedbackTimers < MaxFeedbackTimers
               /\ correctionData' = Append(correctionData, newCorrection)
               /\ smoothedCursorPos' = ClickPos(e)
               /\ cursorPosition' = ClickPos(e)
               /\ correctionFeedback' = TRUE
               /\ feedbackTimers' = feedbackTimers + 1
    /\ UNCHANGED << isCalibrated, storage, screenVars, detVars, clickState, clickTimers,
                    eyePosition, isCorrectionMode, fired, currentPointIndex, p5bRest >>

\* Texts under the key that this program did not write: the empty text, null, an
\* object, an empty array and a text cut short.
ForeignTexts ==
    { << >>, << Tok("null") >>, << Tok("{"), Tok("}") >>, << Tok("["), Tok("]") >>,
      << Tok("["), Tok("{") >> }
\* Something else leaves a text under the key while this program has stored nothing.
ForeignWrite ==
    /\ storage = NoItem
    /\ completions = << >>
    /\ \E text \in ForeignTexts : storage' = Item(text)
    /\ lastOp' = [op |-> "foreign"]
    /\ UNCHANGED << correctionData, isCalibrated, screenVars, detVars, clickState,
                    clickTimers, cursorVars, fired, currentPointIndex, p5bOthers >>

(* ------------------- the mappers applied as functions ------------------ *)
\* Samples a calibration set can hold (two of them taken at the same eye position) and
\* eye positions to map.
MapSamples ==
    { [eye |-> [x |-> 40, y |-> 40], screen |-> [x |-> 10, y |-> 10]],
      [eye |-> [x |-> 40, y |-> 40], screen |-> [x |-> 90, y |-> 10]],
      [eye |-> [x |-> 60, y |-> 40], screen |-> [x |-> 90, y |-> 90]],
      [eye |-> [x |-> 40, y |-> 60], screen |-> [x |-> 10, y |-> 90]],
      [eye |-> [x |-> 60, y |-> 60], screen |-> [x |-> 50, y |-> 50]] }
MapQueries ==
    { [x |-> 40, y |-> 40], [x |-> 60, y |-> 60], [x |-> 60, y |-> 40], [x |-> 50, y |-> 50],
      [x |-> 0, y |-> 0] }
\* The normalized outputs of the linear mappers, each as << numerator, range >>: of
\* updateCursor of part_001 (nothing when its range guard fails) and of the gaze
\* mapping of part_000 (x mirrored).
P1_NormOf(eye, map) ==
    IF map.eyeMaxX - map.eyeMinX # 0 /\ map.eyeMaxY - map.eyeMinY # 0
    THEN << [x |-> << P1_Norm(eye.x, map.eyeMinX, map.eyeMaxX), map.eyeMaxX - map.eyeMinX >>,
             y |-> << P1_Norm(eye.y, map.eyeMinY, map.eyeMaxY), map.eyeMaxY - map.eyeMinY >>] >>
    ELSE << >>
P0_NormOf(eye, map) ==
    [x |-> << P0_Norm(eye.x, map.eyeMinX, map.eyeMaxX), map.eyeMaxX - map.eyeMinX >>,
     mirrored |-> << (map.eyeMaxX - map.eyeMinX) - P0_Norm(eye.x, map.eyeMinX, map.eyeMaxX),
                     map.eyeMaxX - map.eyeMinX >>,
     y |-> << P0_Norm(eye.y, map.eyeMinY, map.eyeMaxY), map.eyeMaxY - map.eyeMinY >>]
AllMapped(eye, pts) ==
    [App |-> mapEyeToScreen(eye, pts),
     first |-> P2_mapEyeToScreen(eye, pts),
     second |-> P2b_mapEyeToScreen(eye, pts),
     linear |-> IF pts = << >> THEN << >> ELSE P1_NormOf(eye, P1_BuildMap(pts)),
     mirrored |-> IF pts = << >> THEN << >> ELSE << P0_NormOf(eye, P0_BuildMap(pts)) >>]

(* ------------ src/unnamed/part_001: OneEuroFilter as a function -------- *)
MaxClock == 3
MaxCalls == 3

NewOneEuroFilter == [x_prev |-> 0, dx_prev |-> 0, t_prev |-> 0, firstTime |-> TRUE]
\* timestamp || performance.now(): the argument is << >> when omitted and << t >> when
\* given; 0 is falsy.
TimeOf(timestamp, now) ==
    IF timestamp = << >> \/ timestamp[1] = 0 THEN now ELSE timestamp[1]
\* filter(x, timestamp) at performance.now() = now: the instance afterwards and the value
\* returned. A value is in hundredths, a time in milliseconds; aD and a are the
\* smoothing factors of the derivative and of the value, in quarters (both lie strictly
\* between 0 and 1 when time has passed).
OneEuroFilter_filter(f, x, timestamp, now, aD, a) ==
    LET t == TimeOf(timestamp, now)
    IN IF f.firstTime
       THEN [filter |-> [f EXCEPT !.firstTime = FALSE, !.t_prev = t, !.x_prev = x],
             returned |-> x]
       ELSE IF t - f.t_prev <= 0
       THEN [filter |-> f, returned |-> f.x_prev]
       ELSE LET dx == ((x - f.x_prev) * 1000) \div (t - f.t_prev)
                dx_hat == (aD * dx + (4 - aD) * f.dx_prev) \div 4
                x_hat == (a * x + (4 - a) * f.x_prev) \div 4
            IN [filter |-> [f EXCEPT !.dx_prev = dx_hat, !.x_prev = x_hat, !.t_prev = t],
                returned |-> x_hat]
\* The instance with its callers' view: the clock, the calls so far, the latest
\* arguments and what that call returned.
NewEuro ==
    [filter |-> NewOneEuroFilter, clock |-> 1, calls |-> 0, x |-> 0, timestamp |-> << >>,
     returned |-> 0]
EuroValues == { 0, 20, 100 }
EuroTimestamps == { << >> } \cup { << t >> : t \in 0..MaxClock }
EuroCall ==
    /\ euro.calls < MaxCalls
    /\ \E x \in EuroValues, timestamp \in EuroTimestamps, now \in euro.clock..MaxClock,
          aD \in 1..3, a \in 1..3 :
          LET r == OneEuroFilter_filter(euro.filter, x, timestamp, now, aD, a)
          IN euro' = [filter |-> r.filter, clock |-> now, calls |-> euro.calls + 1,
                      x |-> x, timestamp |-> timestamp, returned |-> r.returned]
    /\ UNCHANGED << appVars, variant, p0Vars, modeRef, canPlays, filters, argPoints, argEye,
                    mapped, p5bVars >>

(* ------------------------------ initial state -------------------------- *)
InitOf(v) ==
    /\ variant = v
    /\ leftEyeState = Idle
    /\ rightEyeState = Idle
    /\ clickState = None
    /\ clickTimers = 0
    /\ eyePosition = [x |-> 50, y |-> 50]
    /\ targetPosition = IF v = "part_000" THEN Origin ELSE ScreenCentre
    /\ smoothedCursorPos = ScreenCentre
    /\ cursorPosition = IF v = "part_000" THEN Origin ELSE ScreenCentre
    /\ calibrationState = "notStarted"
    /\ calibrationPointIndex = 0
    /\ calibrationData = <<>>
    /\ calibrationStateRef = "notStarted"
    /\ calibrationDataRef = <<>>
    /\ captureTimer = {}
    /\ autoStartTimers = 0
    /\ cursorLoop = FALSE
    /\ isCorrectionMode = FALSE
    /\ correctionFeedback = FALSE
    /\ feedbackTimers = 0
    /\ effectsPending = FALSE
    /\ fired = [left |-> FALSE, right |-> FALSE]
    /\ run = [left |-> 0, right |-> 0]
    /\ closedFor = [left |-> 0, right |-> 0]
    /\ lastOp = Other
    /\ smoothSteps = 0
    /\ isWebcamEnabled = (v # "part_000")
    /\ classifiersLoaded = FALSE
    /\ currentPointIndex = 0
    /\ calibrationMap = << >>
    /\ mode = "None"
    /\ chains = << >>
    /\ calDeps = << "notStarted", 0, FALSE, FALSE >>
    /\ leftEyeOpen = TRUE
    /\ rightEyeOpen = TRUE
    /\ leftEyeBlinked = FALSE
    /\ rightEyeBlinked = FALSE
    /\ blinkTimeout = FALSE
    /\ recalibrations = 0
    /\ oldRunSamples = 0
    /\ modeRef = "None"
    /\ canPlays = 0
    /\ argPoints = << >>
    /\ argEye = [x |-> 50, y |-> 50]
    /\ mapped = AllMapped(argEye, argPoints)
    /\ filters = [x |-> NewFilter, y |-> NewFilter]
    /\ leftBlinkDetector = Open
    /\ rightBlinkDetector = Open
    /\ eyeBlinkState = [left |-> FALSE, right |-> FALSE]
    /\ blinkResets = << >>
    /\ detectionStatus = "searching"
    /\ stretchClicks = [left |-> 0, right |-> 0]
    /\ correctionData = << >>
    /\ isCalibrated = FALSE
    /\ storage = NoItem
    /\ collectedData = << >>
    /\ showFeedback = FALSE
    /\ advanceTimers = << >>
    /\ completions = << >>
    /\ euro = NewEuro

vars == << appVars, extVars >>
\* src/App.tsx after construction.
Init == InitOf("App")

\* Frames as the blink detectors see them.
BlinkFrame == \E l \in EarSet, r \in EarSet : processVideo(Detection(SteadyEye, l, r))
LostFrame == processVideo(NoDetection)
NextBlink == BlinkFrame \/ LostFrame \/ ClickReset
SpecBlink == Init /\ [][NextBlink]_vars
\* The same with the 200 ms reset timers bound to fire.
SpecBlinkFair == Init /\ [][NextBlink]_vars /\ WF_vars(ClickReset)

\* Frames with both eyes open and a moving gaze.
OpenFrame == \E eye \in EyeSet : processVideo(Detection(eye, EarOpen, EarOpen))
NextCal ==
    \/ OpenFrame \/ LostFrame
    \/ CanPlay \/ AutoStartTimer \/ Recalibrate \/ CaptureTimer \/ RunEffects
SpecCal == Init /\ [][NextCal]_vars

\* Frames with both eyes open and a steady gaze.
SteadyFrame == processVideo(Detection(SteadyEye, EarOpen, EarOpen))
MouseDown == \E event \in ClickSet : handleCorrectionClick(event)
Next ==
    \/ SteadyFrame \/ LostFrame
    \/ Recalibrate \/ CaptureTimer \/ RunEffects
    \/ handleKeyDown \/ handleKeyUp \/ MouseDown \/ FeedbackTimer
    \/ updateCursor
Spec == Init /\ [][Next]_vars

\* part_000: frames seen during capture and tracking.
P0_ObsSet == { P0_NoVideo, P0_NoFace, P0_Eyes(TRUE, TRUE, SteadyEye) }
P0_Init == InitOf("part_000")
P0_Tick == \E obs \in P0_ObsSet : CaptureTick(obs)
P0_Frame == \E obs \in P0_ObsSet : mainLoop(obs)
P0_KeyDown == \E key \in {"g", "c"} : P0_handleKeyDown(key)
P0_KeyUp == \E key \in {"g", "c"} : P0_handleKeyUp(key)
NextP0 ==
    \/ handleEnableWebcam \/ loadClassifiers \/ P0_RunEffects
    \/ DwellTimer \/ P0_Tick \/ WindowTimer \/ handleRecalibrate
SpecP0 == P0_Init /\ [][NextP0]_vars

\* part_000 in Click mode: a calibration run with a steady gaze, then frames that find
\* both eyes, one eye or no face while the keys are pressed and released; the 150 ms
\* reset fires if it is left pending.
P0_ClickFrames ==
    { P0_NoFace } \cup { P0_Eyes(l, r, SteadyEye) : l \in BOOLEAN, r \in BOOLEAN }
P0_SteadyTick == CaptureTick(P0_Eyes(TRUE, TRUE, SteadyEye))
P0_ClickFrame == \E obs \in P0_ClickFrames : mainLoop(obs)
NextClick ==
    \/ handleEnableWebcam \/ loadClassifiers \/ P0_RunEffects
    \/ DwellTimer \/ P0_SteadyTick \/ WindowTimer
    \/ P0_ClickFrame \/ P0_KeyDown \/ P0_KeyUp \/ P0_BlinkTimeout
SpecClick == P0_Init /\ [][NextClick]_vars /\ WF_vars(P0_BlinkTimeout)

\* part_005, second program: the frames its blink detectors see, and its timers.
P5b_Init == InitOf("part_005b")
P5b_Frame ==
    \/ P5b_processVideo(P5b_NoFace)
    \/ \E eyes \in EyesFound : P5b_processVideo(P5b_Face(SteadyEye, eyes))
NextCooldown == P5b_Frame \/ ClickReset \/ BlinkReset
SpecCooldown == P5b_Init /\ [][NextCooldown]_vars

\* OneEuroFilter as a function: calls on one instance, with and without a timestamp.
SpecEuro == Init /\ [][EuroCall]_vars

\* The mappers as functions: a calibration set is built sample by sample, eye positions
\* are mapped through it.
AddSample ==
    /\ Len(argPoints) < MaxSamples
    /\ \E s \in MapSamples :
          /\ argPoints' = Append(argPoints, s)
          /\ mapped' = AllMapped(argEye, Append(argPoints, s))
    /\ UNCHANGED << argEye, appVars, variant, p0Vars, modeRef, canPlays, filters, p5bVars,
                    euro >>
MapQuery ==
    /\ \E eye \in MapQueries :
          /\ argEye' = eye
          /\ mapped' = AllMapped(eye, argPoints)
    /\ UNCHANGED << argPoints, appVars, variant, p0Vars, modeRef, canPlays, filters,
                    p5bVars, euro >>
NextMap == AddSample \/ MapQuery
SpecMap == Init /\ [][NextMap]_vars

\* The same with the samples of the three-sample scenario of Strategy A.
ScenarioSamples ==
    { [eye |-> [x |-> 30, y |-> 30], screen |-> [x |-> 10, y |-> 10]],
      [eye |-> [x |-> 50, y |-> 50], screen |-> [x |-> 50, y |-> 50]],
      [eye |-> [x |-> 70, y |-> 70], screen |-> [x |-> 90, y |-> 90]] }
\* Only the linear mapper of part_001 is applied.
LinearMapped(eye, pts) ==
    [linear |-> IF pts = << >> THEN << >> ELSE P1_NormOf(eye, P1_BuildMap(pts))]
AddScenarioSample ==
    /\ Len(argPoints) < MaxSamples
    /\ \E s \in ScenarioSamples :
          /\ argPoints' = Append(argPoints, s)
          /\ mapped' = LinearMapped(argEye, Append(argPoints, s))
    /\ UNCHANGED << argEye, appVars, variant, p0Vars, modeRef, canPlays, filters, p5bVars,
                    euro >>
ScenarioQuery ==
    /\ \E eye \in MapQueries :
          /\ argEye' = eye
          /\ mapped' = LinearMapped(eye, argPoints)
    /\ UNCHANGED << argPoints, appVars, variant, p0Vars, modeRef, canPlays, filters,
                    p5bVars, euro >>
NextScenario == AddScenarioSample \/ ScenarioQuery
SpecScenario == Init /\ [][NextScenario]_vars

\* The linear programs: calibration, recalibration, mode keys and the cursor loop of
\* part_001 and of part_005.
LinearVariants == { "part_001", "part_005" }
LinearInit == \E v \in LinearVariants : InitOf(v)
\* The eye positions seen: during a calibration run the eye settles while the first
\* MovingTargets targets are shown, and is steady from then on.
MovingTargets == 2
EyeMoves(eye) ==
    \/ calibrationState # "inProgress"
    \/ calibrationPointIndex < MovingTargets
    \/ eye = eyePosition
P1_OpenFrame ==
    \E eye \in EyeSet : EyeMoves(eye) /\ P1_processVideo(Detection(eye, EarOpen, EarOpen))
P1_KeyDown == \E key \in { "g", "c" } : P1_handleKeyDown(key)
P1_KeyUp == \E key \in { "g", "c" } : P1_handleKeyUp(key)
P5_MouseMove == \E eye \in EyeSet : EyeMoves(eye) /\ P5_handleMouseMove(eye)
LinearShared ==
    CanPlay \/ AutoStartTimer \/ CaptureTimer \/ P1_Recalibrate \/ P1_KeyDown \/ P1_KeyUp
LinearP1 ==
    /\ variant = "part_001"
    /\ LinearShared \/ P1_RunEffects \/ P1_OpenFrame \/ P1_updateCursor
LinearP5 ==
    /\ variant = "part_005"
    /\ LinearShared \/ P5_RunEffects \/ P5_MouseMove \/ P5_updateCursor
NextLinear == LinearP1 \/ LinearP5
SpecLinear == LinearInit /\ [][NextLinear]_vars

\* part_003: calibration runs, the Recalibrate button and the keys, with open eyes.
P3_Init == InitOf("part_003")
P3_OpenFrame ==
    \E eye \in EyeSet, d \in P3_Durations :
       EyeMoves(eye) /\ P3_processVideo(Detection(eye, EarOpen, EarOpen), d, d)
NextP3 ==
    \/ P3_CanPlay \/ AutoStartTimer \/ CaptureTimer \/ P3_RunEffects
    \/ P3_Recalibrate \/ P3_OpenFrame \/ P1_KeyDown \/ P1_KeyUp
SpecP3 == P3_Init /\ [][NextP3]_vars

\* part_005, second program: confirmation clicks, the store and reloads; the eye moves
\* while the first MovingTargets targets are shown.
P5b_OpenFrame ==
    \E eye \in EyeSet :
       /\ currentPointIndex < MovingTargets \/ eye = eyePosition
       /\ Len(collectedData) < MovingTargets \/ eye = eyePosition
       /\ P5b_processVideo(P5b_Face(eye, "both"))
NextConfirm ==
    P5b_OpenFrame \/ handleTargetClick \/ AdvanceTimer \/ handleClearCorrections
SpecConfirm == P5b_Init /\ [][NextConfirm]_vars
\* The same with a user who waits for the next target before clicking, with reloads of
\* the page and with texts that something else left in localStorage.
PatientClick == advanceTimers = << >> /\ handleTargetClick
NextStore ==
    \/ P5b_OpenFrame \/ PatientClick \/ AdvanceTimer \/ handleClearCorrections
    \/ P5b_Mount \/ ForeignWrite
SpecStore == P5b_Init /\ [][NextStore]_vars
\* The same with live corrections: Shift pressed and released, clicks anywhere, the
\* 200 ms acknowledgment.
P5b_MouseDown == \E e \in ClickSet : P5b_handleCorrectionClick(e)
NextCorrect ==
    \/ P5b_OpenFrame \/ PatientClick \/ AdvanceTimer \/ handleClearCorrections
    \/ P5b_Mount \/ handleKeyDown \/ handleKeyUp \/ P5b_MouseDown \/ FeedbackTimer
SpecCorrect == P5b_Init /\ [][NextCorrect]_vars

\* Calibration left to run, in each of the three timed programs: no recalibration; a
\* timer that is armed fires, and the effects of a commit run.
Variants == { "App", "part_000", "part_001" }
LiveInit == \E v \in Variants : InitOf(v)
P1_LostFrame == P1_processVideo(NoDetection)
P1_SteadyFrame == P1_processVideo(Detection(SteadyEye, EarOpen, EarOpen))
LiveApp ==
    /\ variant = "App"
    /\ CanPlay \/ AutoStartTimer \/ CaptureTimer \/ RunEffects \/ LostFrame \/ SteadyFrame
LiveP1 ==
    /\ variant = "part_001"
    /\ CanPlay \/ AutoStartTimer \/ CaptureTimer \/ P1_RunEffects \/ P1_LostFrame
       \/ P1_SteadyFrame
LiveP0 ==
    /\ variant = "part_000"
    /\ handleEnableWebcam \/ loadClassifiers \/ P0_RunEffects \/ DwellTimer \/ P0_Tick
       \/ WindowTimer
LiveNext == LiveApp \/ LiveP1 \/ LiveP0
LiveSpec ==
    /\ LiveInit
    /\ [][LiveNext]_vars
    /\ WF_vars(AutoStartTimer)
    /\ WF_vars(CaptureTimer)
    /\ WF_vars(variant = "App" /\ RunEffects)
    /\ WF_vars(variant = "part_001" /\ P1_RunEffects)
    /\ WF_vars(variant = "part_000" /\ P0_RunEffects)
    /\ WF_vars(DwellTimer)
    /\ WF_vars(WindowTimer)

(* ============================ blink detector ========================== *)
Sides == {"left", "right"}
EyeStateOf(side) == IF side = "left" THEN leftEyeState ELSE rightEyeState
\* The latest frame fed this detector an EAR at or above the threshold after a closure.
Reopens(side) == run[side] > 0 /\ run'[side] = 0

\* C1: blink debounce.  A closure of exactly BLINK_CLOSING_FRAMES + 1 frames fires a
\* click for that eye on the frame that reopens it, and none on the frames before;
\* a closure of a single frame fires none; both leave the detector idle.
C1_BlinkDebounce ==
    \A side \in Sides :
        /\ closedFor[side] = BLINK_CLOSING_FRAMES + 1 => fired[side] /\ EyeStateOf(side) = Idle
        /\ closedFor[side] = 1 => ~fired[side] /\ EyeStateOf(side) = Idle
        /\ run[side] > 0 /\ run[side] <= BLINK_CLOSING_FRAMES + 1 => ~fired[side]
\* Witness: the same frame ended a two-frame closure of the left eye, which clicked,
\* and a one-frame dip of the right eye, which did not.
C1_Witness ==
    /\ closedFor.left = BLINK_CLOSING_FRAMES + 1 /\ fired.left
    /\ closedFor.right = 1 /\ ~fired.right

\* The shortest closure during which the closed-frame counter exceeds the timeout.
SquintFrames == BLINK_CLOSING_FRAMES + BLINK_CLOSED_FRAMES * 5 + 1
\* C2: squint timeout.  No closure held for longer than the squint timeout fires a
\* click when the eye reopens, however long it lasted.
C2_SquintNeverClicks ==
    \A side \in Sides : closedFor[side] >= SquintFrames => ~fired[side]

\* C3 as stated: reopening in closed, with the closed-frame counter not above the
\* squint timeout, fires a click and returns the detector to idle.
C3_ClickBeforeTimeout ==
    [][\A side \in Sides :
          ( /\ EyeStateOf(side).state = "closed"
            /\ EyeStateOf(side).frames <= BLINK_CLOSED_FRAMES * 5
            /\ Reopens(side) )
          => fired'[side] /\ EyeStateOf(side)' = Idle]_vars
\* C3 as amended: reopening in closed, with the closed-frame counter not above
\* BLINK_CLOSED_FRAMES + 3, fires a click and returns the detector to idle.
C3_ClickInWindow ==
    [][\A side \in Sides :
          ( /\ EyeStateOf(side).state = "closed"
            /\ EyeStateOf(side).frames <= BLINK_CLOSED_FRAMES + 3
            /\ Reopens(side) )
          => fired'[side] /\ EyeStateOf(side)' = Idle]_vars
\* Witness: a closure that reopened with the counter at BLINK_CLOSED_FRAMES + 3 clicked.
C3_Witness ==
    /\ closedFor.right = BLINK_CLOSING_FRAMES + BLINK_CLOSED_FRAMES + 3
    /\ fired.right /\ rightEyeState = Idle


(* ===================== timed calibration of src/App.tsx =============== *)
InTargetOrder(data, points) ==
    /\ Len(data) <= Len(points)
    /\ \A i \in 1..Len(data) : data[i].screen = points[i]
PointsOf(v) == IF v = "part_000" THEN P0_CALIBRATION_POINTS ELSE CALIBRATION_POINTS
OnePerTarget ==
    /\ Len(calibrationData) = Len(PointsOf(variant))
    /\ \A i \in 1..Len(calibrationData) : calibrationData[i].screen = PointsOf(variant)[i]
\* C5: once calibration is in progress, with the timers firing and no restart, it
\* finishes with one sample per target, in target order, whatever the frames detect.
C5_CalibrationCompletes ==
    (calibrationState = "inProgress") ~> (calibrationState = "finished" /\ OnePerTarget)
\* The averaging program finished although no capture tick of any target got a reading.
C5_Witness ==
    /\ variant = "part_000"
    /\ calibrationState = "finished"
    /\ \A i \in 1..Len(calibrationData) : calibrationData[i].eye = P0_CALIBRATION_POINTS[i]

(* ================== restart of the averaging calibration ============== *)
\* C6: a timer of processPoint that was pending when handleRecalibrate ran neither
\* appends a sample nor advances currentPointIndex when it fires.
C6_RestartCancelsTimers ==
    [][ (\E c \in 1..Len(chains) : chains[c].stale /\ chains' = RemoveAt(chains, c))
          => UNCHANGED << calibrationData, currentPointIndex >> ]_vars
\* C10: after handleRecalibrate, until the new run has finished, the calibration set
\* holds only samples captured by the new run.
C10_OnlyNewRunSamples ==
    (recalibrations > 0 /\ calibrationState # "finished") => oldRunSamples = 0

(* ======================= live correction, src/App.tsx ================= *)
IsClick(op) == op.op = "click"
C8_CorrectionSnapsCursor ==
    (IsClick(lastOp) /\ lastOp.accepted) =>
        /\ smoothedCursorPos = ClickPos(lastOp.event)
        /\ cursorPosition = ClickPos(lastOp.event)
\* C9: a mouse-down without the modifier held, or while calibration is not finished,
\* changes neither the calibration set nor the cursor nor the feedback flag.
C9_CorrectionGated ==
    [][ (IsClick(lastOp') /\ (~isCorrectionMode \/ calibrationState # "finished"))
          => UNCHANGED << calibrationData, smoothedCursorPos, cursorPosition,
                          correctionFeedback >> ]_vars
\* A mouse-down with the modifier held while calibration was in progress, ignored.
C9_Witness ==
    /\ IsClick(lastOp)
    /\ ~lastOp.accepted
    /\ isCorrectionMode
    /\ calibrationState = "inProgress"
    /\ calibrationData # << >>

(* ============================== the mappers =========================== *)
\* C11: with fewer than K_NEAREST_NEIGHBORS samples, the empty set included,
\* mapEyeToScreen of src/App.tsx returns the screen centre for every eye position.
C11_UndersizedSetMapsToCentre ==
    Len(argPoints) < K_NEAREST_NEIGHBORS => mapped.App = ScreenCentre
\* K - 1 samples, the eye position of one of them mapped: still the centre.
C11_Witness ==
    /\ Len(argPoints) = K_NEAREST_NEIGHBORS - 1
    /\ argEye = argPoints[1].eye
    /\ mapped.App = ScreenCentre
\* C12: mapping the eye position of a stored sample returns that sample's screen
\* point, whatever else the set holds (stated for the sets the KNN/IDW computation
\* is reached with).
C12_StoredEyeMapsToItsScreen ==
    Len(argPoints) >= K_NEAREST_NEIGHBORS =>
        \A i \in 1..Len(argPoints) :
            argPoints[i].eye = argEye => mapped.App = ScaleToWindow(argPoints[i].screen)
\* C13: every mapEyeToScreen returns a point inside the window, on every path.
InWindow(p) ==
    /\ 0 <= p.x /\ p.x <= Px(Window.innerWidth)
    /\ 0 <= p.y /\ p.y <= Px(Window.innerHeight)
C13_MappedInsideWindow ==
    InWindow(mapped.App) /\ InWindow(mapped.first) /\ InWindow(mapped.second)

\* C14: the normalized outputs of the linear mapping of part_001 and of the mirrored
\* one of part_000 lie in [0,1], for every calibration map and every eye position.
InUnit(q) == 0 <= q[1] /\ q[1] <= q[2] /\ q[2] > 0
C14_LinearNormInUnit ==
    /\ \A i \in DOMAIN mapped.linear : InUnit(mapped.linear[i].x) /\ InUnit(mapped.linear[i].y)
    /\ \A i \in DOMAIN mapped.mirrored :
          /\ InUnit(mapped.mirrored[i].x)
          /\ InUnit(mapped.mirrored[i].mirrored)
          /\ InUnit(mapped.mirrored[i].y)
\* An eye position outside the calibrated box, clamped to the lower edge by both.
C14_Witness ==
    /\ argEye = [x |-> 0, y |-> 0]
    /\ mapped.linear # << >> /\ mapped.linear[1].x[1] = 0
    /\ mapped.mirrored # << >> /\ mapped.mirrored[1].mirrored[1] = mapped.mirrored[1].mirrored[2]

(* ========================= the linear programs ======================== *)
\* C15: with a calibration map whose x range or y range is zero, a cursor-update step
\* of part_001 and of part_005 (part_003) divides nothing by zero and leaves the target,
\* the filters and the cursor as they were.
Degenerate(map) == map.eyeMaxX = map.eyeMinX \/ map.eyeMaxY = map.eyeMinY
C15_DegenerateBoxHoldsCursor ==
    [][(/\ lastOp' = [op |-> "updateCursor"]
        /\ calibrationMap # << >>
        /\ Degenerate(calibrationMap[1]))
       => UNCHANGED << targetPosition, filters, cursorPosition >>]_vars
\* C18: in part_001, whenever calibration is finished the map is set and is the
\* bounding box of the eye components of the nine samples of the run, one per target,
\* widened on each side by a tenth of its range (the map is in thousandths).
Least(S) == CHOOSE m \in S : \A x \in S : m <= x
Greatest(S) == CHOOSE m \in S : \A x \in S : m >= x
EyeComponents(axis) == { calibrationData[i].eye[axis] : i \in 1..Len(calibrationData) }
PaddedMin(S) == 10 * Least(S) - (Greatest(S) - Least(S))
PaddedMax(S) == 10 * Greatest(S) + (Greatest(S) - Least(S))
C16_NoDetectionFreezes ==
    /\ [](~effectsPending => ENABLED LostFrame)
    /\ [][lastOp'.op = "noDetection"
          => /\ UNCHANGED << eyePosition, targetPosition, leftEyeState, rightEyeState,
                             clickState, clickTimers >>
             /\ fired' = [left |-> FALSE, right |-> FALSE]]_vars
\* A frame without detection while the left detector is in a closure and a right click
\* is showing.
C16_Witness ==
    /\ lastOp.op = "noDetection"
    /\ leftEyeState.state = "closed"
    /\ clickState = "right"
C19_ClickIsMomentary ==
    /\ (clickState # None) ~> (clickState = None)
    /\ [][clickTimers' < clickTimers => UNCHANGED << leftEyeState, rightEyeState >>]_vars
\* A right click showing, its reset pending, the left detector in the middle of a closure.
C19_Witness ==
    /\ fired.right
    /\ clickState = "right"
    /\ clickTimers > 0
    /\ leftEyeState.state = "closing"
\* C20: on a detection frame each detector's next state and click are those of its own
\* state and its own EAR, whatever the other eye's are; a click is published with the
\* side of the detector that fired it (the right one last when both fire).
C20_PerEyeIndependence ==
    [][lastOp'.op = "frame"
       => /\ leftEyeState' = updateBlinkState(leftEyeState, lastOp'.leftEAR).next
          /\ fired'.left = updateBlinkState(leftEyeState, lastOp'.leftEAR).click
          /\ rightEyeState' = updateBlinkState(rightEyeState, lastOp'.rightEAR).next
          /\ fired'.right = updateBlinkState(rightEyeState, lastOp'.rightEAR).click
          /\ fired'.right => clickState' = "right"
          /\ (fired'.left /\ ~fired'.right) => clickState' = "left"
          /\ (~fired'.left /\ ~fired'.right) => clickState' = clickState]_vars
\* The left detector clicks while the right eye is held closed.
C20_Witness ==
    /\ lastOp.op = "frame"
    /\ fired.left /\ ~fired.right
    /\ clickState = "left"
    /\ rightEyeState.state = "closed"
(* ================= part_005, second program: cooldown ================= *)
\* C21: while an eye stays undetected for one uninterrupted stretch of frames, of any
\* length, at most one click is fired for it.
C21_OneClickPerStretch ==
    \A side \in Sides : stretchClicks[side] <= 1

(* ========================= target and smoothing ======================= *)
\* C22: whatever the order of perception and smoothing steps, the target a smoothing
\* step reads has both coordinates from the same perception step, or is the initial
\* centre: the target starts at the centre, only a detection frame of a finished
\* calibration changes it, to the mapping of that frame's eye position on both axes at
\* once, and a smoothing step moves each axis toward the target as it then is.
C22_TargetWrittenWhole ==
    /\ targetPosition = ScreenCentre
    /\ [][/\ targetPosition' # targetPosition
             => /\ lastOp'.op = "frame"
                /\ calibrationStateRef = "finished"
                /\ targetPosition' = mapEyeToScreen(eyePosition', calibrationDataRef)
          /\ smoothSteps' # smoothSteps
             => /\ targetPosition' = targetPosition
                /\ smoothedCursorPos' =
                      [x |-> Lerp(smoothedCursorPos.x, targetPosition.x),
                       y |-> Lerp(smoothedCursorPos.y, targetPosition.y)]]_vars
\* A smoothing step has read a target that a perception step wrote.
C22_Witness ==
    /\ smoothSteps > 0
    /\ targetPosition.x # ScreenCentre.x
    /\ targetPosition.y # ScreenCentre.y
    /\ targetPosition = mapEyeToScreen(eyePosition, calibrationDataRef)
    /\ smoothedCursorPos # ScreenCentre

(* ============================ one-euro filter ========================= *)
\* C23: the first call filter(x, t) on a fresh instance returns x and stores x as the
\* previous value and t as the previous timestamp, for every x and every t.
C23_FirstSampleStored ==
    euro.calls = 1 /\ euro.timestamp # << >> =>
        /\ euro.returned = euro.x
        /\ euro.filter.x_prev = euro.x
        /\ euro.filter.t_prev = euro.timestamp[1]

\* C24: a later call filter(x, t) with t not after the previous timestamp returns the
\* previous filtered value and leaves previous value, derivative and timestamp as they
\* were.
C24_TimingAnomalyHolds ==
    [][/\ euro.calls >= 1
       /\ euro'.calls = euro.calls + 1
       /\ euro'.timestamp # << >>
       /\ euro'.timestamp[1] <= euro.filter.t_prev
       => /\ euro'.returned = euro.filter.x_prev
          /\ euro'.filter = euro.filter]_vars

(* ====================== confirmation-click calibration ================= *)
\* The sample of data at place k was taken at target k.
TakenAtTarget(data, k) ==
    data[k].screen = [x |-> (CALIBRATION_POINTS[k].x * Window.innerWidth) \div 100,
                      y |-> (CALIBRATION_POINTS[k].y * Window.innerHeight) \div 100]
\* C30: whatever the order of target clicks and 300 ms timers, several clicks on one
\* target before its timer included, one sample is collected per target, and
\* onCalibrationComplete is called once, with the 9 samples in target order.
C30_OneSamplePerClickedTarget ==
    /\ Len(collectedData) <= currentPointIndex + 1
    /\ \A k \in 1..Len(collectedData) : TakenAtTarget(collectedData, k)
    /\ Len(completions) <= 1
    /\ \A i \in 1..Len(completions) :
          /\ Len(completions[i]) = TOTAL_CALIBRATION_POINTS
          /\ \A k \in 1..TOTAL_CALIBRATION_POINTS : TakenAtTarget(completions[i], k)

(* ========================= calibration persistence ===================== *)
\* C25: a mount after handleCalibrationComplete(data) restores a correction set equal to
\* data with isCalibrated = TRUE; a mount after handleClearCorrections starts with no
\* corrections and isCalibrated = FALSE; and a stored text that is not a non-empty
\* array never makes isCalibrated TRUE.
C25_CalibrationSurvivesReload ==
    [][lastOp'.op = "mount" =>
         /\ completions # << >> =>
               /\ correctionData' = completions[Len(completions)]
               /\ isCalibrated'
         /\ completions = << >> =>
               /\ correctionData' = << >>
               /\ ~isCalibrated'
         /\ ~storage.present \/ storage.text \in ForeignTexts => ~isCalibrated']_vars
\* A page loaded after a calibration of 9 samples, taken at two eye positions.
C25_Witness ==
    /\ lastOp.op = "mount"
    /\ isCalibrated
    /\ Len(correctionData) = TOTAL_CALIBRATION_POINTS
    /\ correctionData = completions[1]
    /\ correctionData[1].eye # correctionData[2].eye

(* ============================ lerp convergence ======================== *)
\* n smoothing steps toward a target that stays where it is.
RECURSIVE LerpSteps(_, _, _)
LerpSteps(smoothed, target, n) ==
    IF n = 0 THEN smoothed ELSE LerpSteps(Lerp(smoothed, target), target, n - 1)
Abs(v) == IF v < 0 THEN 0 - v ELSE v
\* C26: with the target held where it is, n smoothing steps leave (1 - 0.15)^n of the
\* distance on each axis; a step never passes the target and never increases the
\* distance. Stated of every smoothing step the loop takes and of the steps that follow
\* it while the target stays.
C26_LerpConverges ==
    [][smoothSteps' = smoothSteps + 1 =>
         \A axis \in { "x", "y" } :
            LET target == targetPosition[axis]
                smoothed == smoothedCursorPos[axis]
            IN /\ smoothedCursorPos'[axis] = LerpSteps(smoothed, target, 1)
               /\ \A n \in 1..(MaxSmoothSteps - smoothSteps) :
                     LET after == LerpSteps(smoothed, target, n)
                         before == LerpSteps(smoothed, target, n - 1)
                     IN /\ (target - smoothed) % Pow(20, n) = 0
                        /\ target - after = Pow(17, n) * ((target - smoothed) \div Pow(20, n))
                        /\ Abs(target - after) <= Abs(target - before)
                        /\ smoothed <= target => after <= target
                        /\ smoothed >= target => after >= target]_vars
\* Two smoothing steps were taken toward a target away from the centre.
C26_Witness ==
    /\ smoothSteps = 2
    /\ targetPosition.x # ScreenCentre.x
    /\ targetPosition.y # ScreenCentre.y
    /\ targetPosition.x - smoothedCursorPos.x = 289 * ((targetPosition.x - ScreenCentre.x) \div 400)
    /\ targetPosition.y - smoothedCursorPos.y = 289 * ((targetPosition.y - ScreenCentre.y) \div 400)

(* ========================= Strategy A scenario ======================== *)
\* C27: with the map that the bounding-box computation builds from the samples
\* eye (0.3, 0.3), eye (0.5, 0.5) and eye (0.7, 0.7), the eye position (0.5, 0.5) is
\* normalized to 0.5 on both axes.
C27_ScenarioMapsToMiddle ==
    /\ Len(argPoints) = 3
    /\ { argPoints[i] : i \in 1..3 } = ScenarioSamples
    /\ argEye = [x |-> 50, y |-> 50]
    => /\ mapped.linear # << >>
       /\ \A axis \in { "x", "y" } :
             2 * mapped.linear[1][axis][1] = mapped.linear[1][axis][2]
C27_Witness ==
    /\ Len(argPoints) = 3
    /\ { argPoints[i] : i \in 1..3 } = ScenarioSamples
    /\ argEye = [x |-> 50, y |-> 50]
    /\ mapped.linear = << [x |-> << 240, 480 >>, y |-> << 240, 480 >>] >>

(* ======================= live corrections take effect ================= *)
\* C29: after an accepted correction click, which appends the sample of the present eye
\* position and the click to a set of at least K - 1 samples, the eye position of that
\* sample maps to the click, whatever the earlier samples are.
C29_CorrectionMapsToItsClick ==
    [][IsClick(lastOp') /\ lastOp'.accepted
       /\ Len(calibrationData) >= K_NEAREST_NEIGHBORS - 1
       => mapEyeToScreen(eyePosition, calibrationData')
             = ScaleToWindow(NormalizeClick(lastOp'.event))]_vars

C32_ClickIndicatorResets == (clickState # None) ~> (clickState = None)

(* ================== both eyes blink together, src/App.tsx ============== *)
\* C33: when the left and the right detector both fire a click in one frame, the left
\* click is observable in clickState in the state that frame publishes: the right
\* click has not overwritten it.
C33_LeftClickPublished ==
    [][fired'.left /\ fired'.right /\ lastOp'.op = "frame" => clickState' = "left"]_vars

(* ================= detector states of updateBlinkState ================= *)
DetectorShape(eyeState) ==
    /\ eyeState.state \in {"idle", "closing", "closed"}
    /\ eyeState.frames = 0 <=> eyeState.state = "idle"
    /\ eyeState.state = "closing" => eyeState.frames = 1
    /\ eyeState.state = "closed" =>
          eyeState.frames >= 1 /\ eyeState.frames <= BLINK_CLOSED_FRAMES * 5 + 1
\* C34: each detector is idle with frames = 0, closing with frames = 1, or closed with
\* 1 <= frames <= BLINK_CLOSED_FRAMES * 5 + 1, and nothing else; a click of an eye is
\* fired only by a frame that takes its detector from closed to idle, so between two
\* clicks of one eye its detector has been idle.
C34_DetectorInvariant ==
    /\ \A side \in Sides : DetectorShape(EyeStateOf(side))
    /\ [][/\ \A side \in Sides : DetectorShape(EyeStateOf(side)')
          /\ \A side \in Sides :
                fired'[side] /\ lastOp'.op = "frame" =>
                   EyeStateOf(side).state = "closed" /\ EyeStateOf(side)' = Idle]_vars
\* The right detector has stayed closed up to the bound while a frame clicked the left.
C34_Witness ==
    /\ rightEyeState = [state |-> "closed", frames |-> BLINK_CLOSED_FRAMES * 5 + 1]
    /\ fired.left /\ leftEyeState = Idle
    /\ lastOp.op = "frame"

(* ====================== recalibration in part_003 ====================== *)
\* C35: the Recalibrate action invoked while calibration is finished restarts the
\* procedure: it leads to inProgress with target index 0 and an empty calibration set.
C35_RecalibrateRestarts ==
    [][calibrationState = "finished" /\ recalibrations' = recalibrations + 1 =>
          /\ calibrationState' = "inProgress"
          /\ calibrationPointIndex' = 0
          /\ calibrationData' = <<>>]_vars

(* ================= the persisted set of part_005 ====================== *)
\* C36: whenever isCalibrated holds, the list stored under CALIBRATION_STORAGE_KEY is
\* the calibration set in memory, live corrections included.
C36_StoredSetIsLiveSet ==
    isCalibrated =>
       /\ storage.present
       /\ JSON_parse(storage.text).kind = "array"
       /\ JSON_parse(storage.text).items = correctionData

(* ===================== the cursor stays on screen ====================== *)
\* C37: after any sequence of frames, smoothing steps, calibration runs and correction
\* clicks inside a window of fixed size, the smoothed and the published cursor
\* position lie within [0, innerWidth] x [0, innerHeight], and so does the target the
\* smoothing draws them to.
C37_CursorOnScreen ==
    InWindow(targetPosition) /\ InWindow(smoothedCursorPos) /\ InWindow(cursorPosition)
\* The target is the corner of the window, where a correction click was taken, and the
\* smoothing loop has moved the cursor toward it.
C37_Witness ==
    /\ targetPosition = [x |-> Px(Window.innerWidth), y |-> Px(Window.innerHeight)]
    /\ smoothSteps = MaxSmoothSteps
    /\ cursorPosition.x > ScreenCentre.x /\ cursorPosition.y > ScreenCentre.y
    /\ cursorPosition = smoothedCursorPos
====
